---- MODULE Spec2Model ----
(***************************************************************************)
(* A model of the stone-ui command-line tool: the `init` command (project  *)
(* detection, config file, dependency install, CSS-import patch of the     *)
(* entry file) and the `add` command (component scaffolding and barrel     *)
(* merge), in the two variants of each command that the repository holds.  *)
(*                                                                         *)
(* A text file is modelled by the sequence of its lines, that is by the    *)
(* result of content.split("\n"); the content is the lines joined by "\n". *)
(* The empty file is the one-element sequence <<"">>.                      *)
(*                                                                         *)
(* Specifications: SpecPatch (ensureStylesImport on an entry file),        *)
(* SpecBarrel (updateBarrel on an existing barrel), SpecAdd (add on a      *)
(* project, and the same add again), SpecCli (one command on a project),   *)
(* SpecDetect (the package-manager and project-type detectors of init),   *)
(* SpecResume (an add that is killed part-way, and the same add again),    *)
(* SpecPrompt (an add at a terminal whose input may end at a question),    *)
(* SpecSeq (one add after another, each with its own components),          *)
(* SpecPaths (add under config paths other than the ones init writes).     *)
(***************************************************************************)
EXTENDS Integers, Sequences, FiniteSets, TLC

VARIABLES
  entry,        \* patch: current lines of the entry file
  entryItems,   \* patch: the statements the entry file was built from
  entryBefore,  \* patch: lines of the entry file before the latest call
  patchLog,     \* patch: per ensureStylesImport call, [io, returned, wrote]
  variant,      \* add: "registry" (commands/add.ts) or "manifest" (part_004)
  configFile,   \* the config file at the project root: [exists, json, framework, language]
  files,        \* add: component and utility files, path -> content or "absent"
  dirs,         \* add: the directories that exist under the project root
  barrel,       \* add: the barrel file, [exists, lines]
  pc,           \* the position of the running command
  request,      \* add: the component names given on the command line
  opts,         \* add: [overwrite, yes], the flags of the command line
  tty,          \* process.stdin.isTTY
  run,          \* add: the locals and the log of the latest addCommand call
  snap,         \* the file tree when the running command started
  proc,         \* the process: [exitCode, printed], what main leaves behind
  project,      \* init: what detection reads, [init, pkg, deps, tsconfig, hasEntry]
  initRun,      \* init: the locals and the log of the initCommand call
  probe,        \* init: the files and dependencies the detectors look at
  detected      \* init: [pm, projectType], what the detectors returned

patchVars == <<entry, entryItems, entryBefore, patchLog>>

addVars ==
  <<variant, configFile, files, dirs, barrel, pc, request, opts, tty, run, snap, proc>>

initVars == <<project, initRun, probe, detected>>

vars == <<patchVars, addVars, initVars>>

(***************************************************************************)
(* Bounds of the model.                                                    *)
(***************************************************************************)
MaxItems == 3
MaxPatchCalls == 2
MaxReq == 2
MaxBarrelLines == 3

(***************************************************************************)
(* Sequence helpers.                                                       *)
(***************************************************************************)
RECURSIVE SeqsUpTo(_, _)
SeqsUpTo(S, n) ==
  IF n = 0 THEN {<<>>}
  ELSE LET shorter == SeqsUpTo(S, n - 1)
       IN  shorter \cup {Append(s, x) : s \in {t \in shorter : Len(t) = n - 1}, x \in S}

Range(s) == {s[i] : i \in 1..Len(s)}

\* Array.prototype.splice(at, 0, x) on a 0-based index `at`.
InsertAt(s, at, x) == SubSeq(s, 1, at) \o <<x>> \o SubSeq(s, at + 1, Len(s))

Count(s, x) == Cardinality({i \in 1..Len(s) : s[i] = x})

\* The elements of s in the order of their first occurrence ([...new Set(s)]).
RECURSIVE Dedupe(_)
Dedupe(s) ==
  IF s = <<>> THEN <<>>
  ELSE LET init == Dedupe(SubSeq(s, 1, Len(s) - 1))
           x == s[Len(s)]
       IN  IF x \in Range(init) THEN init ELSE Append(init, x)

RECURSIVE ConcatAll(_)
ConcatAll(ss) == IF ss = <<>> THEN <<>> ELSE Head(ss) \o ConcatAll(Tail(ss))

(***************************************************************************)
(* init.ts: the CSS-import patch of the entry file.                        *)
(***************************************************************************)
STYLES_IMPORT == "import \"@stone-ui/styles/stone.css\";"

\* STYLES_IMPORT of the other variant of init.
STYLES_IMPORT_DIST == "import \"@stone-ui/styles/dist/stone.css\";"

\* The lines entry files are built from.
LnBlank == ""
LnComment == "  // entry point"
LnPathComment == "// TODO: load @stone-ui/styles/stone.css"
LnImport == "import React from \"react\";"
LnMultiStart == "import {"
LnMultiBody == "  createRoot,"
LnMultiEnd == "} from \"react-dom/client\";"
LnCode == "createRoot(document.body);"

\* String.prototype.trim on the lines of the model.
Trim(l) ==
  CASE l = LnComment -> "// entry point"
    [] l = LnMultiBody -> "createRoot,"
    [] l = "  export { Button } from \"./primitives/button\";"
         -> "export { Button } from \"./primitives/button\";"
    [] l = " Button " -> "Button"
    [] l = "Yes " -> "Yes"
    [] OTHER -> l

\* String.prototype.toLowerCase on the names and answers of the model.
ToLowerCase(l) ==
  CASE l = "Button" -> "button"
    [] l = "Yes" -> "yes"
    [] OTHER -> l

\* l.startsWith("//") || l.startsWith("/*"), on a trimmed line.
StartsWithComment(l) == l \in {"// entry point", LnPathComment}

\* l.startsWith("import ") || "import{" || 'import"' || "import'", on a trimmed line.
StartsWithImport(l) == l \in {LnImport, LnMultiStart, STYLES_IMPORT, STYLES_IMPORT_DIST}

\* A check for another path than the one STYLES_IMPORT holds (the path with
\* "dist/" that the other variant of init uses), which no line here contains.
IncludesStylesPathDist(lines) ==
  \E i \in 1..Len(lines) : lines[i] = STYLES_IMPORT_DIST

\* src.includes("@stone-ui/styles/stone.css") on a file given by its lines.
IncludesStylesPath(lines) ==
  \E i \in 1..Len(lines) : lines[i] \in {STYLES_IMPORT, LnPathComment}

\* The statements of an entry file, and the lines of each.
Items == {"blank", "comment", "pathComment", "import", "multiImport", "code", "styles"}

ItemLines(it) ==
  CASE it = "blank" -> <<LnBlank>>
    [] it = "comment" -> <<LnComment>>
    [] it = "pathComment" -> <<LnPathComment>>
    [] it = "import" -> <<LnImport>>
    [] it = "multiImport" -> <<LnMultiStart, LnMultiBody, LnMultiEnd>>
    [] it = "code" -> <<LnCode>>
    [] it = "styles" -> <<STYLES_IMPORT>>

RECURSIVE Flatten(_)
Flatten(items) ==
  IF items = <<>> THEN <<>> ELSE ItemLines(Head(items)) \o Flatten(Tail(items))

\* source.split(/\r?\n/) of the file made of `items`, one line after the other.
FileLines(items) == IF items = <<>> THEN <<"">> ELSE Flatten(items)

\* The for loop of patchImportAtTop: the 0-based index of the last import
\* line seen before the loop breaks, -1 when there is none.
RECURSIVE ScanImports(_, _, _)
ScanImports(lines, i, lastImportIndex) ==
  IF i >= Len(lines) THEN lastImportIndex
  ELSE LET l == Trim(lines[i + 1])
       IN  IF l = "" \/ StartsWithComment(l)
             THEN ScanImports(lines, i + 1, lastImportIndex)
           ELSE IF StartsWithImport(l)
             THEN ScanImports(lines, i + 1, i)
           ELSE IF lastImportIndex # -1
             THEN lastImportIndex
           ELSE ScanImports(lines, i + 1, lastImportIndex)

PatchImportAtTop(lines, importLine) ==
  LET lastImportIndex == ScanImports(lines, 0, -1)
  IN  IF lastImportIndex >= 0
        THEN InsertAt(lines, lastImportIndex + 1, importLine)
        ELSE <<importLine>> \o lines

\* ensureStylesImport: the file after the call, the value returned, and
\* the I/O failure it caught and logged with log.error ("none" when there
\* was none).  readOk and writeOk are the outcomes of fs.readFile and
\* fs.writeFile.
EnsureStylesImport(lines, readOk, writeOk) ==
  IF ~readOk
    THEN [lines |-> lines, returned |-> FALSE, wrote |-> FALSE, failed |-> "read"]
  ELSE IF IncludesStylesPath(lines)
    THEN [lines |-> lines, returned |-> FALSE, wrote |-> FALSE, failed |-> "none"]
  ELSE IF writeOk
    THEN [lines |-> PatchImportAtTop(lines, STYLES_IMPORT),
          returned |-> TRUE, wrote |-> TRUE, failed |-> "none"]
  ELSE [lines |-> lines, returned |-> FALSE, wrote |-> FALSE, failed |-> "write"]


(***************************************************************************)
(* The component registry of commands/add.ts (registry/manifest.ts,        *)
(* getRegistry) and the component manifest of the manifest-based add       *)
(* (componentManifestByName).                                              *)
(***************************************************************************)
Variants == {"registry", "manifest"}
Languages == {"ts", "js"}

\* The own keys of registry.components.
RegistryKeys == {"button", "card", "neon-border"}

\* Keys every object literal inherits from Object.prototype with a truthy
\* value; a request is lower-cased, so only the lower-case ones can be asked.
InheritedKeys == {"constructor", "__proto__"}

\* Boolean(registry.components[name])
RegistryHas(name) == name \in RegistryKeys \cup InheritedKeys

RegistryExportName(name) ==
  CASE name = "button" -> "Button"
    [] name = "card" -> "Card"
    [] name = "neon-border" -> "NeonBorder"

ComponentKind(name) == IF name = "neon-border" THEN "wrapper" ELSE "primitive"

\* component.files[0].path, split at "/".
RegistryFilePath(name) == <<ComponentKind(name) \o "s", name, "index.tsx">>

\* componentManifestByName.has(name): a Map, looked up by the exact key.
ManifestHas(name) == name \in {"button", "card", "neon-border"}

\* Array.from(componentManifestByName.keys()).sort()
ManifestAvailable == <<"button", "card", "neon-border">>

\* entry.exports.values and entry.exports.types
ManifestValues(name) ==
  CASE name = "button" -> <<"Button">>
    [] name = "card" -> <<"Card", "CardHeader", "CardBody", "CardFooter">>
    [] name = "neon-border" -> <<"NeonBorder">>

ManifestTypes(name) ==
  CASE name = "button" -> <<"ButtonProps">>
    [] name = "card" -> <<"CardProps", "CardSectionProps">>
    [] name = "neon-border" -> <<"NeonBorderProps">>

\* entry.requires.includes("cn")
ManifestRequiresCn(name) == name \in {"button", "card", "neon-border"}

(***************************************************************************)
(* Export statements and their order.                                      *)
(***************************************************************************)
ValueExport(symbol, rel) == "export { " \o symbol \o " } from \"" \o rel \o "\";"
TypeExport(symbol, rel) == "export type { " \o symbol \o " } from \"" \o rel \o "\";"

\* `export { ${component.exportName} } from "./${component.kind}s/${component.name}";`
RegistryExport(name) ==
  ValueExport(RegistryExportName(name), "./" \o ComponentKind(name) \o "s/" \o name)

\* The export lines updateBarrel builds for one manifest entry.
ManifestExports(name, language) ==
  LET segment == IF ComponentKind(name) = "primitive" THEN "primitives" ELSE "wrappers"
      rel == "./" \o segment \o "/" \o name
      values == [i \in 1..Len(ManifestValues(name)) |-> ValueExport(ManifestValues(name)[i], rel)]
      types == [i \in 1..Len(ManifestTypes(name)) |-> TypeExport(ManifestTypes(name)[i], rel)]
  IN  IF language = "ts" THEN values \o types ELSE values

\* Every export statement of the model, in the order of their UTF-16 code
\* units (the order of Array.prototype.sort): "t" (0x74) sorts before "{"
\* (0x7B) and " " (0x20) before every letter.
StatementOrder ==
  << TypeExport("ButtonProps", "./primitives/button"),
     TypeExport("CardProps", "./primitives/card"),
     TypeExport("CardSectionProps", "./primitives/card"),
     TypeExport("NeonBorderProps", "./wrappers/neon-border"),
     ValueExport("Button", "./primitives/button"),
     ValueExport("Card", "./primitives/card"),
     ValueExport("CardBody", "./primitives/card"),
     ValueExport("CardFooter", "./primitives/card"),
     ValueExport("CardHeader", "./primitives/card"),
     ValueExport("NeonBorder", "./wrappers/neon-border") >>

Rank(statement) == CHOOSE i \in 1..Len(StatementOrder) : StatementOrder[i] = statement

\* Array.prototype.sort() on export statements (repeated elements are kept).
SortStatements(s) ==
  ConcatAll([i \in 1..Len(StatementOrder) |->
               SelectSeq(s, LAMBDA x : x = StatementOrder[i])])

\* The statements of a set, in lexicographic order.
Lexicographic(S) == SelectSeq(StatementOrder, LAMBDA st : st \in S)

IsSorted(s) == \A i \in 1..(Len(s) - 1) : Rank(s[i]) <= Rank(s[i + 1])

(***************************************************************************)
(* The barrel file and its merge.                                          *)
(***************************************************************************)
NoBarrel == [exists |-> FALSE, lines |-> <<>>]

BarrelHeader == "// Stone UI components"

\* registry.barrelTemplate(exportsList): the header, the export lines, and a
\* trailing newline.
BarrelTemplate(exportsList) == <<BarrelHeader>> \o exportsList \o <<"">>

\* The barrel template file of the manifest-based add, with its placeholder.
BaseTemplate == <<BarrelHeader, "{{exports}}">>

\* baseTemplate.replace("{{exports}}", newLines.join("\n"))
ReplaceExports(template, newLines) ==
  ConcatAll([i \in 1..Len(template) |->
               IF template[i] = "{{exports}}"
                 THEN (IF newLines = <<>> THEN <<"">> ELSE newLines)
                 ELSE <<template[i]>>])

\* existing.split(/\r?\n/).map((line) => line.trim())
TrimmedLines(lines) == [i \in 1..Len(lines) |-> Trim(lines[i])]

\* String.prototype.trimEnd on a file: the trailing blank lines go.
RECURSIVE TrimEnd(_)
TrimEnd(lines) ==
  IF Len(lines) = 1 THEN lines
  ELSE IF Trim(lines[Len(lines)]) = "" THEN TrimEnd(SubSeq(lines, 1, Len(lines) - 1))
  ELSE lines

\* An updateBarrel that writes the barrel anew from the template.
UpdateBarrelFromTemplate(b, exportStatements) ==
  [barrel |-> [exists |-> TRUE, lines |-> BarrelTemplate(SortStatements(exportStatements))],
   wrote |-> TRUE, mkdir |-> ~b.exists]

\* updateBarrel of commands/add.ts: the barrel after the call, and whether
\* fs.writeFile and fs.mkdir were called.
UpdateBarrelRegistry(b, exportStatements) ==
  LET normalizedExports == SortStatements(exportStatements)
      lines == Dedupe(SelectSeq(TrimmedLines(b.lines), LAMBDA l : l # ""))
      added == SelectSeq(normalizedExports, LAMBDA st : st \notin Range(lines))
  IN  IF ~b.exists
        THEN [barrel |-> [exists |-> TRUE, lines |-> BarrelTemplate(normalizedExports)],
              wrote |-> TRUE, mkdir |-> TRUE]
      ELSE IF added # <<>>
        THEN [barrel |-> [exists |-> TRUE, lines |-> lines \o added \o <<"">>],
              wrote |-> TRUE, mkdir |-> FALSE]
      ELSE [barrel |-> b, wrote |-> FALSE, mkdir |-> FALSE]

\* The export lines of the manifest-based updateBarrel, entry after entry.
ManifestExportLines(entries, language) ==
  ConcatAll([i \in 1..Len(entries) |-> ManifestExports(entries[i], language)])

\* updateBarrel of the manifest-based add.
UpdateBarrelManifest(b, entries, language) ==
  LET exportLines == ManifestExportLines(entries, language)
      existing == IF b.exists THEN b.lines ELSE <<"">>
      existingLines == Range(TrimmedLines(existing))
      newLines == SelectSeq(exportLines, LAMBDA l : l \notin existingLines)
      nonEmpty == existing # <<"">>
  IN  IF nonEmpty /\ newLines = <<>>
        THEN [barrel |-> b, wrote |-> FALSE, mkdir |-> FALSE]
      ELSE IF nonEmpty
        THEN [barrel |-> [exists |-> TRUE,
                          lines |-> TrimEnd(existing) \o newLines \o <<"">>],
              wrote |-> TRUE, mkdir |-> TRUE]
      ELSE [barrel |-> [exists |-> TRUE,
                        lines |-> ReplaceExports(BaseTemplate, newLines) \o <<"">>],
            wrote |-> TRUE, mkdir |-> TRUE]


(***************************************************************************)
(* The file tree of a project the add command works on.  Paths are given   *)
(* by their segments below config.paths.outputDir.                         *)
(***************************************************************************)
\* The config file: whether it exists, whether JSON.parse accepts it, and the
\* framework and language it declares.
NoConfig == [exists |-> FALSE, json |-> FALSE, framework |-> "none", language |-> "none"]
ValidConfig(language) ==
  [exists |-> TRUE, json |-> TRUE, framework |-> "react", language |-> language]

\* A config file that is not JSON, and one that holds the empty object.
NotJsonConfig ==
  [exists |-> TRUE, json |-> FALSE, framework |-> "none", language |-> "none"]
EmptyObjectConfig ==
  [exists |-> TRUE, json |-> TRUE, framework |-> "undefined", language |-> "undefined"]

\* replaceExtension(filePath, language) of commands/add.ts.
ReplaceExtension(filePath, language) ==
  LET last == filePath[Len(filePath)]
  IN  IF language = "js" /\ last = "index.tsx"
        THEN [filePath EXCEPT ![Len(filePath)] = "index.jsx"]
        ELSE filePath

ComponentExt(language) == IF language = "ts" THEN "tsx" ELSE "jsx"
UtilExt(language) == IF language = "ts" THEN "ts" ELSE "js"

\* The target file of a component, in each variant.
ComponentPath(v, name, language) ==
  IF v = "registry"
    THEN ReplaceExtension(RegistryFilePath(name), language)
    ELSE <<IF ComponentKind(name) = "primitive" THEN "primitives" ELSE "wrappers",
           name \o "." \o ComponentExt(language)>>

CnPath(language) == <<"utils", "cn." \o UtilExt(language)>>

AllPaths ==
  {ComponentPath(v, n, l) : v \in Variants, n \in RegistryKeys, l \in Languages}
    \cup {CnPath(l) : l \in Languages}

\* file.template(language), registry.cnTemplate(language), readTemplate(...)
TemplateOf(name, language) == "template:" \o name \o ":" \o language

Dirname(path) == SubSeq(path, 1, Len(path) - 1)

\* fs.mkdir(dir, { recursive: true }): the directory and all above it.
MkdirP(ds, dir) == ds \cup {SubSeq(dir, 1, k) : k \in 0..Len(dir)}

NoFiles == [p \in AllPaths |-> "absent"]

\* A file operation of the log: fs.mkdir(path, { recursive: true }) or
\* fs.writeFile(path, ...).
Op(op, path) == [op |-> op, path |-> path]

BarrelPath == <<"index">>

\* The locals of one addCommand call and the log of what it did.
\* The names an error message lists: the names that did not resolve and
\* the names that are available.
NoMessage == [unknown |-> <<>>, available |-> <<>>]

EmptyRun ==
  [requested |-> <<>>, exports |-> <<>>, needsCn |-> FALSE,
   decisions |-> <<>>, ops |-> <<>>, err |-> "none", message |-> NoMessage]

Snapshot == [files |-> files, dirs |-> dirs, barrel |-> barrel, configFile |-> configFile]

PatchIdle ==
  /\ entry = <<"">>
  /\ entryItems = <<>>
  /\ entryBefore = <<"">>
  /\ patchLog = <<>>

\* A process that has set no exit code and printed no message of main.
Running == [exitCode |-> 0, printed |-> "none"]

\* A main that reports a thrown error and leaves the exit code alone.
MainCatchSilent(err) ==
  IF err = "none" THEN Running
  ELSE [exitCode |-> 0, printed |-> "[stone-ui] Fatal error:"]

\* main(process.argv).catch(...): a command that throws sets exitCode to 1.
MainCatch(err) ==
  IF err = "none" THEN Running
  ELSE [exitCode |-> 1, printed |-> "[stone-ui] Fatal error:"]

\* The action of list and doctor (and of eject).
Stub(command) == [exitCode |-> 1, printed |-> "Not implemented yet: " \o command]

\* No init has run and the model holds no project for it.
NoProject ==
  [init |-> "init.ts", pkg |-> "missing", deps |-> {}, tsconfig |-> FALSE, hasEntry |-> FALSE]

NoInitRun ==
  [opts |-> [overwriteConfig |-> FALSE, yes |-> FALSE, install |-> FALSE, patch |-> FALSE],
   framework |-> "none", strategy |-> "none", asked |-> <<>>, ops |-> <<>>,
   warned |-> <<>>, reported |-> <<>>, status |-> 0, err |-> "none", errCode |-> 0]

\* A project root with no lockfile, no Next.js file and no package.json.
NoProbe ==
  [init |-> "init.ts", lockfiles |-> {}, nextConfig |-> "none", nextModule |-> FALSE,
   appDir |-> "none", pkg |-> "unparsable", deps |-> {}]

\* No detector has returned.
NoDetection == [pm |-> "none", projectType |-> "none"]

DetectIdle == probe = NoProbe /\ detected = NoDetection

InitIdle == project = NoProject /\ initRun = NoInitRun /\ DetectIdle

AddIdle ==
  /\ InitIdle
  /\ variant = "registry"
  /\ configFile = NoConfig
  /\ files = NoFiles
  /\ dirs = {}
  /\ barrel = NoBarrel
  /\ pc = "idle"
  /\ request = <<>>
  /\ opts = [overwrite |-> FALSE, yes |-> FALSE]
  /\ tty = FALSE
  /\ run = EmptyRun
  /\ proc = Running
  /\ snap = [files |-> NoFiles, dirs |-> {}, barrel |-> NoBarrel, configFile |-> NoConfig]

(***************************************************************************)
(* addCommand, in its two variants.  A call is folded over a record of the  *)
(* file tree and the locals: [files, dirs, barrel, requested, exports,     *)
(* needsCn, decisions, ops, err].                                          *)
(***************************************************************************)
\* What a user may type at the overwrite question.
Answers == {"", "Yes ", "n"}

\* The input stream ends while rl.question waits: readline closes and never
\* calls the callback, so the promise of promptBoolean is never settled.
EndOfInput == "<end of input>"

\* A promptBoolean that takes the empty answer for a yes.
PromptBooleanEmptyYes(isTTY, answer, defaultValue) ==
  isTTY /\ ToLowerCase(Trim(answer)) \in {"", "y", "yes"}

\* promptBoolean(question, defaultValue) of commands/add.ts.
PromptBoolean(isTTY, answer, defaultValue) ==
  IF ~isTTY THEN defaultValue
  ELSE LET normalized == ToLowerCase(Trim(answer))
       IN  IF normalized = "" THEN defaultValue ELSE normalized \in {"y", "yes"}

\* A shouldWriteFile that never skips.
ShouldWriteFileAlways(exists, overwriteAll, yes, isTTY, answer) ==
  [write |-> TRUE, asked |-> FALSE, settled |-> TRUE]

\* shouldWriteFile(fullPath, overwriteAll, yes): the decision, whether the
\* user was asked, and whether the awaited promptBoolean was ever settled.
ShouldWriteFile(exists, overwriteAll, yes, isTTY, answer) ==
  IF ~exists THEN [write |-> TRUE, asked |-> FALSE, settled |-> TRUE]
  ELSE IF overwriteAll THEN [write |-> TRUE, asked |-> FALSE, settled |-> TRUE]
  ELSE IF ~isTTY THEN [write |-> FALSE, asked |-> FALSE, settled |-> TRUE]
  ELSE IF yes THEN [write |-> FALSE, asked |-> FALSE, settled |-> TRUE]
  ELSE IF answer = EndOfInput THEN [write |-> FALSE, asked |-> TRUE, settled |-> FALSE]
  ELSE [write |-> PromptBoolean(isTTY, answer, FALSE), asked |-> TRUE, settled |-> TRUE]

\* One entry of the decision log of a call.
Decision(path, existed, asked, at, answer, write) ==
  [path |-> path, existed |-> existed, asked |-> asked, at |-> at,
   answer |-> answer, write |-> write]

\* fs.mkdir(path.dirname(target), { recursive: true }); fs.writeFile(target, contents)
WriteFile(st, target, contents) ==
  [st EXCEPT !.dirs = MkdirP(@, Dirname(target)),
             !.files = [@ EXCEPT ![target] = contents],
             !.ops = @ \o <<Op("mkdir", Dirname(target)), Op("writeFile", target)>>]

\* A target step that takes the answer to the first question for every file.
RegistryTargetFirstAnswer(st, target, contents, o, at) ==
  LET existed == st.files[target] # "absent"
      d == ShouldWriteFile(existed, o.overwrite, o.yes, o.tty, o.answers[1])
      logged == [st EXCEPT !.decisions =
                   Append(@, Decision(target, existed, d.asked, at,
                                      IF d.asked THEN o.answers[1] ELSE "", d.write))]
  IN  IF d.write THEN WriteFile(logged, target, contents) ELSE logged

\* One target of commands/add.ts: shouldWriteFile, then the write or the skip.
\* When the await of shouldWriteFile is never resumed, nothing follows it.
RegistryTarget(st, target, contents, o, at) ==
  LET existed == st.files[target] # "absent"
      d == ShouldWriteFile(existed, o.overwrite, o.yes, o.tty, o.answers[at])
      logged == [st EXCEPT !.decisions =
                   Append(@, Decision(target, existed, d.asked, at,
                                      IF d.asked THEN o.answers[at] ELSE "", d.write))]
  IN  IF ~d.settled THEN [logged EXCEPT !.err = "pending"]
      ELSE IF d.write THEN WriteFile(logged, target, contents) ELSE logged

\* A writeFileSafe that fails on a target that exists, as a writeFile with
\* the flag "wx" does.
WriteFileExclusive(st, target, contents, overwrite) ==
  IF st.files[target] # "absent" THEN [st EXCEPT !.err = "EEXIST"]
  ELSE WriteFile([st EXCEPT !.decisions =
                    Append(@, Decision(target, FALSE, FALSE, 0, "", TRUE))],
                 target, contents)

\* A writeFileSafe that lists an existing file as skipped and replaces it.
WriteFileSafeListedOnly(st, target, contents, overwrite) ==
  WriteFile([st EXCEPT !.decisions =
               Append(@, Decision(target, st.files[target] # "absent", FALSE, 0, "",
                                  ~(st.files[target] # "absent" /\ ~overwrite)))],
            target, contents)

\* writeFileSafe(cwd, targetPath, contents, overwrite, written, skipped)
WriteFileSafe(st, target, contents, overwrite) ==
  LET existed == st.files[target] # "absent"
  IN  IF existed /\ ~overwrite
        THEN [st EXCEPT !.decisions =
                Append(@, Decision(target, TRUE, FALSE, 0, "", FALSE))]
        ELSE WriteFile([st EXCEPT !.decisions =
                          Append(@, Decision(target, existed, FALSE, 0, "", TRUE))],
                       target, contents)

\* ensureDirs(cwd, [outputDir, primitivesDir, wrappersDir, utilsDir])
EnsureDirs(st) ==
  LET list == << <<>>, <<"primitives">>, <<"wrappers">>, <<"utils">> >>
  IN  [st EXCEPT !.dirs = @ \cup UNION {MkdirP({}, list[i]) : i \in 1..Len(list)},
                 !.ops = @ \o [i \in 1..Len(list) |-> Op("mkdir", list[i])]]

\* The call of updateBarrel at the end of addCommand.
BarrelStep(st, r) ==
  [st EXCEPT !.barrel = r.barrel,
             !.dirs = IF r.mkdir THEN MkdirP(@, Dirname(BarrelPath)) ELSE @,
             !.ops = @ \o (IF r.mkdir THEN <<Op("mkdir", Dirname(BarrelPath))>> ELSE <<>>)
                       \o (IF r.wrote THEN <<Op("writeFile", BarrelPath)>> ELSE <<>>)]

Fail(st, err) == [st EXCEPT !.err = err]

StartOf(tree) ==
  [files |-> tree.files, dirs |-> tree.dirs, barrel |-> tree.barrel,
   requested |-> <<>>, exports |-> <<>>, needsCn |-> FALSE,
   decisions |-> <<>>, ops |-> <<>>, err |-> "none", message |-> NoMessage]

\* `Unknown components: ${unknown.join(", ")}`: the names of `requested`
\* that the registry does not have, and nothing else.
UnknownComponents(st) ==
  [Fail(st, "unknown-components") EXCEPT
     !.message = [unknown |-> SelectSeq(st.requested, LAMBDA n : ~RegistryHas(n)),
                  available |-> <<>>]]

\* `Unknown component(s): ${missing}. Available: ${available}` of
\* resolveComponents: `missing` is a Set filled in the order of the names.
UnknownManifestComponents(st) ==
  [Fail(st, "unknown-components") EXCEPT
     !.message = [unknown |-> Dedupe(SelectSeq(st.requested, LAMBDA n : ~ManifestHas(n))),
                  available |-> ManifestAvailable]]

\* opts.components.map((component) => component.trim().toLowerCase())
RegistryRequested(names) == [i \in 1..Len(names) |-> ToLowerCase(Trim(names[i]))]

\* Array.from(new Set(options.components.map((name) => name.trim()).filter(Boolean)))
ManifestRequested(names) ==
  Dedupe(SelectSeq([i \in 1..Len(names) |-> Trim(names[i])], LAMBDA n : n # ""))

\* The loop over `requested` of commands/add.ts.  An inherited key passes
\* the unknown-name test, and then `component.files` is undefined: the
\* for-of throws a TypeError.
RECURSIVE RegistryLoop(_, _, _)
RegistryLoop(st, i, o) ==
  IF i > Len(st.requested) THEN st
  ELSE LET name == st.requested[i]
       IN  IF name \notin RegistryKeys THEN Fail(st, "TypeError")
           ELSE LET target == ComponentPath("registry", name, o.language)
                    after == RegistryTarget(st, target, TemplateOf(name, o.language), o, i)
                IN  IF after.err # "none" THEN [after EXCEPT !.needsCn = TRUE]
                    ELSE RegistryLoop([after EXCEPT !.needsCn = TRUE,
                                                    !.exports = Append(@, RegistryExport(name))],
                                      i + 1, o)

\* addCommand of commands/add.ts.
AddRegistry(tree, cfg, names, o) ==
  LET st0 == StartOf(tree)
  IN  IF ~cfg.exists THEN Fail(st0, "missing-config")
      ELSE IF ~cfg.json THEN Fail(st0, "SyntaxError")
      ELSE IF cfg.framework # "react" THEN Fail(st0, "unsupported-framework")
      ELSE
        LET st1 == [st0 EXCEPT !.requested = RegistryRequested(names)]
        IN  IF \E i \in 1..Len(st1.requested) : ~RegistryHas(st1.requested[i])
              THEN UnknownComponents(st1)
            ELSE
              LET st2 == RegistryLoop(st1, 1, o)
                  st3 == IF st2.needsCn
                           THEN RegistryTarget(st2, CnPath(o.language),
                                               TemplateOf("cn", o.language), o,
                                               Len(names) + 1)
                           ELSE st2
              IN  IF st2.err # "none" THEN st2
                  ELSE IF st3.err # "none" THEN st3
                  ELSE BarrelStep(st3, UpdateBarrelRegistry(st3.barrel, st3.exports))

\* The loop over `entries` of the manifest-based addCommand.
RECURSIVE ManifestLoop(_, _, _)
ManifestLoop(st, i, o) ==
  IF i > Len(st.requested) THEN st
  ELSE LET name == st.requested[i]
           target == ComponentPath("manifest", name, o.language)
       IN  ManifestLoop(WriteFileSafe(st, target, TemplateOf(name, o.language), o.overwrite),
                        i + 1, o)

\* addCommand of the manifest-based add.
AddManifest(tree, cfg, names, o) ==
  LET st0 == StartOf(tree)
  IN  IF ~cfg.exists THEN Fail(st0, "missing-config")
      ELSE IF ~cfg.json THEN Fail(st0, "SyntaxError")
      ELSE IF cfg.framework # "react" THEN Fail(st0, "unsupported-framework")
      ELSE
        LET st1 == [st0 EXCEPT !.requested = ManifestRequested(names)]
        IN  IF st1.requested = <<>> THEN Fail(st1, "no-components")
            ELSE IF \E i \in 1..Len(st1.requested) : ~ManifestHas(st1.requested[i])
              THEN UnknownManifestComponents(st1)
            ELSE
              LET st2 == EnsureDirs(st1)
                  needsCn == \E i \in 1..Len(st2.requested) :
                                ManifestRequiresCn(st2.requested[i])
                  st3 == IF needsCn
                           THEN WriteFileSafe([st2 EXCEPT !.needsCn = TRUE],
                                              CnPath(o.language),
                                              TemplateOf("cn", o.language), o.overwrite)
                           ELSE st2
                  st4 == ManifestLoop(st3, 1, o)
                  exports == ManifestExportLines(st4.requested, o.language)
              IN  BarrelStep([st4 EXCEPT !.exports = exports],
                             UpdateBarrelManifest(st4.barrel, st4.requested, o.language))

(***************************************************************************)
(* SpecAdd: the add command run on a project, and run again with the same  *)
(* command line.                                                           *)
(***************************************************************************)
RawNames == {"button", "card", "neon-border", " Button ", "bogus", "constructor"}

Requests == SeqsUpTo(RawNames, MaxReq) \ {<<>>}

Configs ==
  {NoConfig, NotJsonConfig, EmptyObjectConfig,
   [exists |-> TRUE, json |-> TRUE, framework |-> "vue", language |-> "ts"]}
    \cup {ValidConfig(l) : l \in Languages}

\* The barrel files a project may hold before the first add.
InitialBarrels ==
  { NoBarrel,
    [exists |-> TRUE, lines |-> <<"export * from \"./theme\";", "">>],
    [exists |-> TRUE,
     lines |-> <<ValueExport("Button", "./primitives/button"), "">>] }

\* The directories that hold the given files.
DirsOf(fs, b) ==
  UNION {MkdirP({}, Dirname(p)) : p \in {q \in DOMAIN fs : fs[q] # "absent"}}
    \cup (IF b.exists THEN MkdirP({}, Dirname(BarrelPath)) ELSE {})

\* A project before the first add: with a config for React, some of the
\* targets may hold the user's own files and a barrel may exist.
AddInit ==
  /\ PatchIdle
  /\ InitIdle
  /\ variant \in Variants
  /\ configFile \in Configs
  /\ \E present \in SUBSET {"button", "cn"} :
       files = [p \in AllPaths |->
                  IF /\ configFile.framework = "react"
                     /\ \/ "button" \in present
                             /\ p = ComponentPath(variant, "button", configFile.language)
                        \/ "cn" \in present /\ p = CnPath(configFile.language)
                    THEN "user" ELSE "absent"]
  /\ barrel \in IF configFile.framework = "react" THEN InitialBarrels ELSE {NoBarrel}
  /\ dirs = DirsOf(files, barrel)
  /\ pc = "idle"
  /\ request = <<>>
  /\ opts = [overwrite |-> FALSE, yes |-> FALSE]
  /\ tty = FALSE
  /\ run = EmptyRun
  /\ proc = Running
  /\ snap = Snapshot

\* The answers a call may get: one per target, and the empty one for every
\* target the user is not asked about.
AnswerSets(names, overwrite, yes, isTTY) ==
  IF variant = "registry" /\ isTTY /\ ~yes /\ ~overwrite
    THEN [1..(Len(names) + 1) -> Answers]
    ELSE {[i \in 1..(Len(names) + 1) |-> ""]}

\* What main leaves behind: the catch for a thrown error, and nothing at all
\* when the command waits on a promise that is never settled (the event loop
\* runs empty and the process ends with the exit code it has).
MainOutcome(err) == IF err = "pending" THEN Running ELSE MainCatch(err)

\* One call of addCommand with the given command line and terminal, and
\* answers out of the given set.
RunAddWith(names, overwrite, yes, isTTY, endAt, answerSet) ==
  \E answers \in answerSet :
    \E o \in {[overwrite |-> overwrite, yes |-> yes, tty |-> isTTY,
               language |-> configFile.language, answers |-> answers]} :
      \E r \in {IF variant = "registry"
                  THEN AddRegistry(Snapshot, configFile, names, o)
                  ELSE AddManifest(Snapshot, configFile, names, o)} :
        /\ \A i \in 1..(Len(names) + 1) :
             answers[i] # "" =>
               \E k \in 1..Len(r.decisions) : r.decisions[k].asked /\ r.decisions[k].at = i
        /\ files' = r.files
        /\ dirs' = r.dirs
        /\ barrel' = r.barrel
        /\ run' = [requested |-> r.requested, exports |-> r.exports,
                   needsCn |-> r.needsCn, decisions |-> r.decisions,
                   ops |-> r.ops, err |-> r.err, message |-> r.message]
        /\ pc' = IF r.err = "none" THEN endAt
                 ELSE IF r.err = "pending" THEN "abandoned" ELSE "failed"
        /\ snap' = Snapshot
        /\ request' = names
        /\ opts' = [overwrite |-> overwrite, yes |-> yes]
        /\ tty' = isTTY
        /\ proc' = MainOutcome(r.err)
        /\ UNCHANGED <<patchVars, initVars, variant, configFile>>

\* One call of addCommand, with the answers a user may type.
RunAdd(names, overwrite, yes, isTTY, endAt) ==
  RunAddWith(names, overwrite, yes, isTTY, endAt, AnswerSets(names, overwrite, yes, isTTY))

AddCommand ==
  /\ pc = "idle"
  /\ \E names \in Requests, overwrite \in BOOLEAN, yes \in BOOLEAN, isTTY \in BOOLEAN :
       RunAdd(names, overwrite, yes, isTTY, "done")

\* The same command line again, once, after a run that completed and in
\* which no question could be asked.
AddAgain ==
  /\ pc = "done"
  /\ variant = "manifest" \/ ~tty \/ opts.yes \/ opts.overwrite
  /\ RunAdd(request, opts.overwrite, opts.yes, tty, "done again")

AddNext == AddCommand \/ AddAgain

SpecAdd == AddInit /\ [][AddNext]_vars

(***************************************************************************)
(* SpecResume: an add that is interrupted between two of its file system   *)
(* operations, and the same command run again.                             *)
(***************************************************************************)
\* The tree after the first k operations of a run that ended in r.
ApplyOps(tree, r, k) ==
  LET done == {r.ops[i] : i \in 1..k}
  IN  [files |-> [p \in AllPaths |->
                    IF Op("writeFile", p) \in done THEN r.files[p] ELSE tree.files[p]],
       dirs |-> tree.dirs \cup
                  UNION {MkdirP({}, d.path) : d \in {x \in done : x.op = "mkdir"}},
       barrel |-> IF Op("writeFile", BarrelPath) \in done THEN r.barrel ELSE tree.barrel]

\* addCommand, without a terminal and without --overwrite.
AddPlain(tree, cfg, names) ==
  LET o == [overwrite |-> FALSE, yes |-> FALSE, tty |-> FALSE, language |-> cfg.language,
            answers |-> [i \in 1..(Len(names) + 1) |-> ""]]
  IN  IF variant = "registry" THEN AddRegistry(tree, cfg, names, o)
      ELSE AddManifest(tree, cfg, names, o)

\* The process is killed after k of the operations of the run.
AddInterrupted ==
  /\ pc = "idle"
  /\ \E names \in Requests :
       \E r \in {AddPlain(Snapshot, configFile, names)} :
         \E k \in 0..(Len(r.ops) - 1) :
           \E t \in {ApplyOps(Snapshot, r, k)} :
             /\ files' = t.files
             /\ dirs' = t.dirs
             /\ barrel' = t.barrel
             /\ run' = [EmptyRun EXCEPT !.ops = SubSeq(r.ops, 1, k)]
             /\ request' = names
  /\ pc' = "interrupted"
  /\ snap' = Snapshot
  /\ opts' = [overwrite |-> FALSE, yes |-> FALSE]
  /\ tty' = FALSE
  /\ UNCHANGED <<patchVars, initVars, variant, configFile, proc>>

\* The same command again, to its end.
AddResumed ==
  /\ pc = "interrupted"
  /\ RunAdd(request, FALSE, FALSE, FALSE, "resumed")

ResumeNext == AddInterrupted \/ AddResumed

SpecResume == AddInit /\ [][ResumeNext]_vars

\* C24: when an add is interrupted between two of its file system
\* operations and the same command is run again to its end, without a
\* terminal and without --overwrite, the file tree is the one that a single
\* uninterrupted run from the same initial state leaves, with the same
\* outcome.
C24_Resumability ==
  [][pc = "interrupted" =>
       LET whole == AddPlain(snap, snap.configFile, request)
       IN  /\ files' = whole.files
           /\ dirs' = whole.dirs
           /\ barrel' = whole.barrel
           /\ run'.err = whole.err]_vars

\* A resumed `add button` in an empty project: the first run was stopped
\* after it had written the component file and before the utility and the
\* barrel, which the second run wrote.
C24_Witness ==
  /\ pc = "resumed" /\ request = <<"button">>
  /\ snap.files[ComponentPath(variant, "button", configFile.language)] # "absent"
  /\ snap.files[CnPath(configFile.language)] = "absent" /\ ~snap.barrel.exists
  /\ files[CnPath(configFile.language)] # "absent" /\ barrel.exists

(***************************************************************************)
(* SpecPrompt: an add at a terminal whose input may end while the command  *)
(* waits on the overwrite question, and an add that cannot ask.            *)
(***************************************************************************)
\* What may come back to a question: a typed line, or the end of the input.
PromptAnswerSets(names, overwrite) ==
  IF variant = "registry" /\ ~overwrite
    THEN [1..(Len(names) + 1) -> Answers \cup {EndOfInput}]
    ELSE {[i \in 1..(Len(names) + 1) |-> ""]}

\* add on a terminal, without --yes.
AddAtPrompt ==
  /\ pc = "idle"
  /\ \E names \in Requests, overwrite \in BOOLEAN :
       RunAddWith(names, overwrite, FALSE, TRUE, "done", PromptAnswerSets(names, overwrite))

\* add with --yes, or with an input that is not a terminal.
AddUnattended ==
  /\ pc = "idle"
  /\ \E names \in Requests, overwrite \in BOOLEAN, yes \in BOOLEAN, isTTY \in BOOLEAN :
       /\ yes \/ ~isTTY
       /\ RunAdd(names, overwrite, yes, isTTY, "done")

PromptNext == AddAtPrompt \/ AddUnattended

SpecPrompt == AddInit /\ [][PromptNext]_vars

(***************************************************************************)
(* SpecSeq: one add after another on the same project, each with its own   *)
(* components and flags.                                                   *)
(***************************************************************************)
\* The command lines of the sequence: each component alone, and two at once.
SeqRequests == {<<"button">>, <<"card">>, <<"neon-border">>, <<"card", "button">>}

\* The first add on the project.
AddFirst ==
  /\ pc = "idle"
  /\ \E names \in SeqRequests, overwrite \in BOOLEAN, yes \in BOOLEAN :
       RunAdd(names, overwrite, yes, FALSE, "done")

\* A later add, with any components and flags.
AddLater ==
  /\ pc \in {"done", "done again"}
  /\ \E names \in SeqRequests, overwrite \in BOOLEAN, yes \in BOOLEAN :
       RunAdd(names, overwrite, yes, FALSE, "done again")

SeqNext == AddFirst \/ AddLater

SpecSeq == AddInit /\ [][SeqNext]_vars

(***************************************************************************)
(* SpecPaths: add under a config whose paths are not the ones init writes. *)
(* A path is the sequence of its segments below the project root; a path   *)
(* the config does not give is Unset.                                      *)
(***************************************************************************)
Unset == <<"undefined">>

\* The outputDir init writes, and another one.
DefaultOutputDir == <<"src", "components", "stone-ui">>

OutputDirs == {DefaultOutputDir, <<"src", "ui">>}

\* config.paths of a project: what init writes, and what a user may set.
PathConfigs ==
  {[outputDir |-> o, primitivesDir |-> p, wrappersDir |-> w, barrelFile |-> b] :
     o \in OutputDirs,
     p \in {Unset, DefaultOutputDir \o <<"primitives">>, <<"src", "atoms">>},
     w \in {Unset, DefaultOutputDir \o <<"wrappers">>},
     b \in {Unset, DefaultOutputDir \o <<"index">>, <<"src", "index">>}}

\* config.paths.primitivesDir ?? path.posix.join(outputDir, "primitives")
PrimitivesDir(paths) ==
  IF paths.primitivesDir = Unset THEN paths.outputDir \o <<"primitives">>
  ELSE paths.primitivesDir

\* config.paths.wrappersDir ?? path.posix.join(outputDir, "wrappers")
WrappersDir(paths) ==
  IF paths.wrappersDir = Unset THEN paths.outputDir \o <<"wrappers">>
  ELSE paths.wrappersDir

\* The utils directory, which neither variant takes from these four paths.
UtilsDir(paths) == paths.outputDir \o <<"utils">>

\* The barrel file: the registry-based add takes it from the config, the
\* manifest-based add falls back to index.<ext> in outputDir.
BarrelFile(v, paths) ==
  IF v = "manifest" /\ paths.barrelFile = Unset THEN paths.outputDir \o <<"index">>
  ELSE paths.barrelFile

\* fullPath of a registry component, targetFile of a manifest entry.
TargetFile(v, paths, name, language) ==
  IF v = "registry" THEN paths.outputDir \o ComponentPath("registry", name, language)
  ELSE (IF ComponentKind(name) = "primitive" THEN PrimitivesDir(paths) ELSE WrappersDir(paths))
         \o <<name \o "." \o ComponentExt(language)>>

CnFile(paths, language) == UtilsDir(paths) \o <<"cn." \o UtilExt(language)>>

\* Every file an add may write under one of the configs.
DiskPaths ==
  {TargetFile(v, p, n, l) : v \in Variants, p \in PathConfigs, n \in RegistryKeys, l \in Languages}
    \cup {CnFile(p, l) : p \in PathConfigs, l \in Languages}

\* A project with a valid config, and perhaps the user's own button file.
PathsInit ==
  /\ PatchIdle
  /\ InitIdle
  /\ variant \in Variants
  /\ \E l \in Languages, p \in PathConfigs :
       /\ variant = "registry" => p.barrelFile # Unset
       /\ configFile = [exists |-> TRUE, json |-> TRUE, framework |-> "react",
                        language |-> l, paths |-> p]
  /\ \E present \in BOOLEAN :
       files = [q \in DiskPaths |->
                  IF present /\ q = TargetFile(variant, configFile.paths, "button",
                                               configFile.language)
                    THEN "user" ELSE "absent"]
  /\ barrel = NoBarrel
  /\ dirs = UNION {MkdirP({}, Dirname(q)) : q \in {x \in DiskPaths : files[x] # "absent"}}
  /\ pc = "idle"
  /\ request = <<>>
  /\ opts = [overwrite |-> FALSE, yes |-> FALSE]
  /\ tty = FALSE
  /\ run = EmptyRun
  /\ proc = Running
  /\ snap = Snapshot

\* addCommand for names the registry and the manifest hold, without a
\* terminal: every target that is absent (or every target, with --overwrite)
\* is written, the cn utility too, and the export lines go to the barrel
\* file of the config.
AddOnPaths ==
  /\ pc = "idle"
  /\ \E names \in SeqRequests, overwrite \in BOOLEAN :
       LET language == configFile.language
           paths == configFile.paths
           requested == IF variant = "registry" THEN names ELSE Dedupe(names)
           targets == [i \in 1..Len(requested) |->
                         TargetFile(variant, paths, requested[i], language)]
           contents == [q \in DiskPaths |->
                          IF q = CnFile(paths, language) THEN TemplateOf("cn", language)
                          ELSE LET i == CHOOSE k \in 1..Len(requested) : targets[k] = q
                               IN  TemplateOf(requested[i], language)]
           written == {q \in Range(targets) \cup {CnFile(paths, language)} :
                         overwrite \/ files[q] = "absent"}
           exports == IF variant = "registry"
                        THEN [i \in 1..Len(requested) |-> RegistryExport(requested[i])]
                        ELSE ManifestExportLines(requested, language)
           merged == IF variant = "registry" THEN UpdateBarrelRegistry(barrel, exports)
                     ELSE UpdateBarrelManifest(barrel, requested, language)
       IN  /\ files' = [q \in DiskPaths |-> IF q \in written THEN contents[q] ELSE files[q]]
           /\ dirs' = dirs \cup UNION {MkdirP({}, Dirname(q)) : q \in written}
                        \cup MkdirP({}, Dirname(BarrelFile(variant, paths)))
                        \cup (IF variant = "manifest"
                                THEN MkdirP({}, PrimitivesDir(paths))
                                       \cup MkdirP({}, WrappersDir(paths))
                                       \cup MkdirP({}, UtilsDir(paths))
                                ELSE {})
           /\ barrel' = merged.barrel
           /\ run' = [EmptyRun EXCEPT !.requested = requested, !.exports = exports,
                                      !.needsCn = TRUE]
           /\ request' = names
           /\ opts' = [overwrite |-> overwrite, yes |-> FALSE]
  /\ pc' = "done"
  /\ snap' = Snapshot
  /\ UNCHANGED <<patchVars, initVars, variant, tty, proc, configFile>>

PathsNext == AddOnPaths

SpecPaths == PathsInit /\ [][PathsNext]_vars

(***************************************************************************)
(* Properties of the add command.                                          *)
(***************************************************************************)
NonInteractive == ~tty \/ opts.yes

WritesOf(ops) == SelectSeq(ops, LAMBDA x : x.op = "writeFile")

TreeUnchanged == files = snap.files /\ dirs = snap.dirs /\ barrel = snap.barrel

\* C1: when add has run without --overwrite in a non-interactive environment
\* and is run again with the same names, the second run calls no writeFile
\* and leaves every component file, the cn file and the barrel as they were.
C1_AddIdempotent ==
  (pc = "done again" /\ ~opts.overwrite /\ NonInteractive) =>
    WritesOf(run.ops) = <<>> /\ TreeUnchanged

\* A second run of `add button card` that skipped the three files the first
\* run had written in an empty project.
C1_Witness ==
  /\ pc = "done again" /\ ~opts.overwrite /\ ~tty
  /\ request = <<"button", "card">>
  /\ Len(run.decisions) = 3
  /\ \A k \in 1..3 : ~run.decisions[k].write
  /\ \A k \in 1..3 : files[run.decisions[k].path] \notin {"absent", "user"}
  /\ barrel.exists

\* The name does not resolve to a component of the variant that runs.
Unresolved(name) ==
  IF variant = "registry" THEN name \notin RegistryKeys ELSE ~ManifestHas(name)

\* C2 (as claimed): when a requested name, at any position, does not resolve
\* to a component, add fails and has written no file and made no directory.
C2_UnknownAtomicity ==
  (\E i \in 1..Len(run.requested) : Unresolved(run.requested[i])) =>
    pc = "failed" /\ run.ops = <<>> /\ TreeUnchanged

AnswerIsYes(answer) == answer \in {"y", "yes", "Yes "}

Interactive == tty /\ ~opts.yes

\* The files follow the decisions: a target decided to be written holds a
\* template, a target only skipped holds what it held.
DecisionsTakeEffect ==
  \A k \in 1..Len(run.decisions) :
    LET d == run.decisions[k]
    IN  IF \E j \in 1..Len(run.decisions) :
             run.decisions[j].path = d.path /\ run.decisions[j].write
          THEN files[d.path] \notin {"absent", "user"}
          ELSE files[d.path] = snap.files[d.path]

\* The four rows of the write-policy matrix, for one decision.
MatrixRow(d) ==
  /\ ~d.existed => d.write /\ ~d.asked
  /\ (d.existed /\ opts.overwrite) => d.write /\ ~d.asked
  /\ (d.existed /\ ~opts.overwrite /\ ~Interactive) => ~d.write /\ ~d.asked
  /\ (d.existed /\ ~opts.overwrite /\ Interactive) =>
       d.asked /\ (d.write <=> AnswerIsYes(d.answer))

NoUsableConfig ==
  ~snap.configFile.exists \/ ~snap.configFile.json
    \/ snap.configFile.framework = "undefined"

\* C11 (as claimed): when the config file is absent or is not parsable as
\* the expected schema, add fails with the missing-config error that tells
\* the user to run init first, and writes no file and makes no directory.
C11_MissingConfig ==
  (pc \in {"done", "failed"} /\ NoUsableConfig) =>
    pc = "failed" /\ run.err = "missing-config" /\ run.ops = <<>> /\ TreeUnchanged

\* The valid component names, sorted.
SortedValidNames == <<"button", "card", "neon-border">>

\* C12 (as claimed): when requested names fail to resolve, the error lists
\* every unrecognized name of the request and the full list of valid
\* component names in sorted order.
C12_UnknownErrorContent ==
  (pc = "failed" /\ run.err = "unknown-components") =>
    /\ \A i \in 1..Len(run.requested) :
         Unresolved(run.requested[i]) =>
           \E k \in 1..Len(run.message.unknown) :
             run.message.unknown[k] = run.requested[i]
    /\ \A k \in 1..Len(run.message.unknown) : Unresolved(run.message.unknown[k])
    /\ run.message.available = SortedValidNames

\* The lower-case, trimmed spelling of the requested names.
Canonical(names) == [i \in 1..Len(names) |-> ToLowerCase(Trim(names[i]))]

\* What the running variant's addCommand makes of the tree the run started
\* from when it is given `names` and asks no question.
ScaffoldOf(names) ==
  LET o == [overwrite |-> opts.overwrite, yes |-> opts.yes, tty |-> tty,
            language |-> snap.configFile.language,
            answers |-> [i \in 1..(Len(names) + 1) |-> ""]]
      r == IF variant = "registry"
             THEN AddRegistry(snap, snap.configFile, names, o)
             ELSE AddManifest(snap, snap.configFile, names, o)
  IN  [files |-> r.files, dirs |-> r.dirs, barrel |-> r.barrel, err |-> r.err]

\* C13 (as claimed): requested names that differ from a manifest name only
\* in letter case or in leading and trailing whitespace resolve to the same
\* entry: the run leaves the tree that the lower-case, trimmed request
\* leaves, with the same outcome.
C13_NameNormalization ==
  (pc \in {"done", "failed"} /\ NonInteractive /\ request # Canonical(request)) =>
    [files |-> files, dirs |-> dirs, barrel |-> barrel, err |-> run.err]
      = ScaffoldOf(Canonical(request))

\* C19 (as claimed): in an add run where a resolved entry requires the cn
\* utility and the utility file is absent or --overwrite is set, the utility
\* file is written before the first component file of the run.
C19_UtilityHoisting ==
  (/\ pc \in {"done", "done again", "failed"} /\ run.needsCn
   /\ (snap.files[CnPath(snap.configFile.language)] = "absent" \/ opts.overwrite)) =>
    LET w == WritesOf(run.ops)
        cn == CnPath(snap.configFile.language)
    IN  \A i \in 1..Len(w) :
          w[i].path \notin {cn, BarrelPath} =>
            \E j \in 1..(i - 1) : w[j].path = cn

\* The export statements of a barrel, in file order.
ExportLines(b) == SelectSeq(b.lines, LAMBDA l : l \in Range(StatementOrder))

\* The statements C7 expects for `add button card`.
ButtonCardExports(language) ==
  {ValueExport("Button", "./primitives/button")}
    \cup {ValueExport(sym, "./primitives/card") :
            sym \in {"Card", "CardHeader", "CardBody", "CardFooter"}}
    \cup (IF language = "ts"
            THEN {TypeExport("ButtonProps", "./primitives/button"),
                  TypeExport("CardProps", "./primitives/card"),
                  TypeExport("CardSectionProps", "./primitives/card")}
            ELSE {})

\* C7 (as claimed): in a project with a valid config and no generated file,
\* `add button card` writes the two primitive files and the cn file and
\* nothing else, and creates a barrel whose export lines are those of Button,
\* Card, CardHeader, CardBody, CardFooter (and their types when the language
\* is typed) in lexicographic order.
C7_EndToEnd ==
  (/\ pc = "done" /\ request = <<"button", "card">>
   /\ snap.files = NoFiles /\ ~snap.barrel.exists) =>
    /\ {p \in AllPaths : files[p] # "absent"} =
         {ComponentPath(variant, "button", configFile.language),
          ComponentPath(variant, "card", configFile.language),
          CnPath(configFile.language)}
    /\ barrel.exists
    /\ ExportLines(barrel) = Lexicographic(ButtonCardExports(configFile.language))

\* The export lines as the merge of the running variant takes them: the
\* registry-based updateBarrel sorts the statements it is handed, the
\* manifest-based one builds its lines from the entries.
MergeInput ==
  IF variant = "registry" THEN SortStatements(run.exports) ELSE run.exports

\* C21 (as claimed): for any request list, also one that repeats a name,
\* the export lines of the barrel merge hold no duplicate and are in
\* lexicographic order, and after the merge no generated export line occurs
\* more than once in the barrel, new or existing.
C21_ExportLinesDistinctSorted ==
  (pc \in {"done", "done again"} /\ run.err = "none") =>
    /\ \A i \in 1..Len(MergeInput) : Count(MergeInput, MergeInput[i]) = 1
    /\ IsSorted(MergeInput)
    /\ \A i \in 1..Len(run.exports) : Count(barrel.lines, run.exports[i]) <= 1

\* The extension of the last segment of a path.
Stems == {"index", "button", "card", "neon-border", "cn"}

Extension(path) ==
  CHOOSE e \in {"ts", "tsx", "js", "jsx"} :
    \E stem \in Stems : path[Len(path)] = stem \o "." \o e

\* The `export type` statements and the value statements of a component.
TypeExportsOf(name) ==
  {TypeExport(ManifestTypes(name)[i], "./" \o ComponentKind(name) \o "s/" \o name) :
     i \in 1..Len(ManifestTypes(name))}

IsTypeExport(line) == \E name \in RegistryKeys : line \in TypeExportsOf(name)

\* The files the run wrote, the barrel aside.
WrittenPaths ==
  {run.ops[i].path : i \in {k \in 1..Len(run.ops) :
                              run.ops[k].op = "writeFile" /\ run.ops[k].path # BarrelPath}}

\* C22 (as claimed): add takes the language from the config; in untyped mode
\* every file it writes has a .js or .jsx extension and no `export type` line
\* is added to the barrel; in typed mode the component files are .tsx, the
\* utility is .ts, and the export lines cover the values and the types.
C22_LanguageMode ==
  (pc = "done" /\ run.err = "none") =>
    IF snap.configFile.language = "js"
      THEN /\ \A p \in WrittenPaths : Extension(p) \in {"js", "jsx"}
           /\ \A i \in 1..Len(barrel.lines) :
                IsTypeExport(barrel.lines[i]) => barrel.lines[i] \in Range(snap.barrel.lines)
      ELSE /\ \A p \in WrittenPaths :
                Extension(p) = IF p = CnPath("ts") THEN "ts" ELSE "tsx"
           /\ \A i \in 1..Len(run.requested) :
                /\ RegistryExport(run.requested[i]) \in Range(barrel.lines)
                /\ TypeExportsOf(run.requested[i]) \subseteq Range(barrel.lines)

\* The answers the run was given, question by question (the empty answer
\* where no question was asked).
AnswersGiven ==
  [i \in 1..(Len(request) + 1) |->
     IF \E k \in 1..Len(run.decisions) : run.decisions[k].asked /\ run.decisions[k].at = i
       THEN LET k == CHOOSE k \in 1..Len(run.decisions) :
                       run.decisions[k].asked /\ run.decisions[k].at = i
            IN  run.decisions[k].answer
       ELSE ""]

\* The decisions of the registry-based add on the tree the run started from,
\* with the given answers.
DecisionsWith(answers) ==
  AddRegistry(snap, snap.configFile, request,
              [overwrite |-> opts.overwrite, yes |-> opts.yes, tty |-> tty,
               language |-> snap.configFile.language, answers |-> answers]).decisions

\* C23: in a run of the registry-based add over several files, the decision
\* for a file follows from that file's existence, the overwrite flag, the
\* interactivity and the answer given for that file; each existing file gets
\* its own question in interactive mode, and another answer for one file
\* changes the decision of no other file.
C23_PerFileIndependence ==
  (variant = "registry" /\ pc \in {"done", "failed"}) =>
    /\ \A k \in 1..Len(run.decisions) :
         LET d == run.decisions[k]
         IN  /\ d.existed <=>
                  \/ snap.files[d.path] # "absent"
                  \/ \E j \in 1..(k - 1) :
                       run.decisions[j].path = d.path /\ run.decisions[j].write
             /\ d.asked <=> (d.existed /\ ~opts.overwrite /\ Interactive)
             /\ d.write <=> (~d.existed \/ opts.overwrite \/ (d.asked /\ AnswerIsYes(d.answer)))
             /\ \A j \in 1..Len(run.decisions) :
                  (j # k /\ d.asked /\ run.decisions[j].asked) => run.decisions[j].at # d.at
    /\ run.decisions = DecisionsWith(AnswersGiven)
    /\ \A k \in 1..Len(run.decisions) : \A x \in Answers :
         run.decisions[k].asked =>
           LET other == DecisionsWith([AnswersGiven EXCEPT ![run.decisions[k].at] = x])
           IN  /\ Len(other) = Len(run.decisions)
               /\ \A j \in 1..Len(other) : j # k => other[j] = run.decisions[j]

\* An interactive run over two existing files, button and cn, in which the
\* user said yes for the first and no for the second.
C23_Witness ==
  /\ variant = "registry" /\ pc = "done" /\ Interactive /\ ~opts.overwrite
  /\ Len(run.decisions) = 2
  /\ run.decisions[1].asked /\ run.decisions[1].answer = "Yes " /\ run.decisions[1].write
  /\ run.decisions[2].asked /\ run.decisions[2].answer = "n" /\ ~run.decisions[2].write

\* C25 (as claimed): in one add invocation each target file is written at
\* most once, for every request list and every flag combination; when a
\* later step fails, the files the run had written stay on disk.
C25_AtMostOnceWrites ==
  (pc \in {"done", "done again", "failed"}) =>
    LET w == WritesOf(run.ops)
    IN  /\ \A i, j \in 1..Len(w) : i # j => w[i].path # w[j].path
        /\ pc = "failed" =>
             \A i \in 1..Len(w) :
               w[i].path # BarrelPath => files[w[i].path] \notin {"absent", "user"}

\* The decisions of the run whose question met the end of the input.
Unanswered == {i \in 1..Len(run.decisions) :
                 run.decisions[i].asked /\ run.decisions[i].answer = EndOfInput}

\* C26: with --yes or an input that is not a terminal the run asks nothing
\* and never waits; a question that meets the end of the input is settled
\* with the default, so that file is skipped (it stays as it was) and the run
\* goes on: it ends as a run does (completed or failed with an error), and
\* when it completes it has handled every requested name and the utility and
\* has merged the barrel.
C26_PromptStreamClose ==
  pc \in {"done", "failed", "abandoned"} =>
    /\ NonInteractive =>
         /\ pc # "abandoned"
         /\ \A i \in 1..Len(run.decisions) : ~run.decisions[i].asked
    /\ \A i \in Unanswered :
         /\ ~run.decisions[i].write
         /\ files[run.decisions[i].path] = snap.files[run.decisions[i].path]
    /\ pc # "abandoned"
    /\ (Unanswered # {} /\ run.err = "none") =>
         /\ Len(run.exports) = Len(run.requested)
         /\ Op("writeFile", BarrelPath) \in Range(run.ops)

\* The part of C26 that the code keeps: nothing is asked without a terminal
\* or with --yes, and a run that waits on a question has written the files
\* decided before the question and nothing else, the barrel included.
C26_NoOperationWhileWaiting ==
  /\ NonInteractive =>
       /\ pc # "abandoned"
       /\ \A i \in 1..Len(run.decisions) : ~run.decisions[i].asked
  /\ pc = "abandoned" =>
       /\ Unanswered = {Len(run.decisions)}
       /\ Len(SelectSeq(run.ops, LAMBDA x : x.op = "writeFile"))
            = Len(SelectSeq(run.decisions, LAMBDA d : d.write))
       /\ ~Op("writeFile", BarrelPath) \in Range(run.ops)
       /\ barrel = snap.barrel

\* The candidate files of a manifest-based run, each with the template it
\* is rendered from: the cn utility when an entry requires it, and the file
\* of every resolved entry.
Candidates ==
  (IF \E i \in 1..Len(run.requested) : ManifestRequiresCn(run.requested[i])
     THEN {[path |-> CnPath(configFile.language), name |-> "cn"]} ELSE {})
  \cup {[path |-> ComponentPath("manifest", run.requested[i], configFile.language),
         name |-> run.requested[i]] : i \in 1..Len(run.requested)}

\* The written and the skipped list of the run.
Written == {run.decisions[i].path : i \in {k \in 1..Len(run.decisions) : run.decisions[k].write}}

Skipped == {run.decisions[i].path : i \in {k \in 1..Len(run.decisions) : ~run.decisions[k].write}}

\* C27: at the end of a successful manifest-based add every candidate file
\* is listed once, in exactly one of the written and the skipped list, and
\* nothing else is listed; a skipped file is as it was before the run and a
\* written file holds the template rendered for the configured language.
C27_WrittenSkippedAccounting ==
  (variant = "manifest" /\ pc \in {"done", "done again"} /\ run.err = "none") =>
    /\ Written \cup Skipped = {c.path : c \in Candidates}
    /\ Written \cap Skipped = {}
    /\ Len(run.decisions) = Cardinality(Candidates)
    /\ \A c \in Candidates :
         /\ c.path \in Skipped => files[c.path] = snap.files[c.path]
         /\ c.path \in Written => files[c.path] = TemplateOf(c.name, configFile.language)

\* A manifest-based add of two entries has skipped the user's button file
\* and has written the other entry and the utility.
C27_Witness ==
  /\ variant = "manifest" /\ pc = "done" /\ run.err = "none"
  /\ Len(run.requested) = 2
  /\ ComponentPath("manifest", "button", configFile.language) \in Skipped
  /\ files[ComponentPath("manifest", "button", configFile.language)] = "user"
  /\ Cardinality(Written) = 2
  /\ CnPath(configFile.language) \in Written

\* The non-empty trimmed lines of a barrel file.
BarrelLineSet(b) == {l \in Range(TrimmedLines(b.lines)) : l # ""}

\* C28: no add takes a non-empty trimmed line out of the barrel file, and a
\* successful add leaves its own export lines in it; so over a sequence of
\* adds every line that was in the barrel after one of them is in it after
\* every later one, the export lines of components added earlier included.
C28_BarrelMonotonicity ==
  [][/\ BarrelLineSet(barrel) \subseteq BarrelLineSet(barrel')
     /\ run'.err = "none" => /\ barrel'.exists
                             /\ Range(run'.exports) \subseteq BarrelLineSet(barrel')]_vars

\* button was added by an earlier add, and after a later add of card alone
\* the barrel holds the export lines of both.
C28_Witness ==
  /\ pc = "done again" /\ run.err = "none"
  /\ request = <<"card">>
  /\ snap.files[ComponentPath(variant, "button", configFile.language)]
       = TemplateOf("button", configFile.language)
  /\ snap.barrel.exists
  /\ ~(Range(run.exports) \subseteq BarrelLineSet(snap.barrel))
  /\ run.exports # <<>>
  /\ Range(run.exports) \subseteq BarrelLineSet(barrel)
  /\ IF variant = "registry"
       THEN RegistryExport("button") \in BarrelLineSet(snap.barrel) \cap BarrelLineSet(barrel)
       ELSE Range(ManifestExports("button", configFile.language))
              \subseteq BarrelLineSet(snap.barrel) \cap BarrelLineSet(barrel)

\* The module specifier of the export lines of a component, as segments
\* below the directory of the barrel file.
ExportSpecifier(name) == <<ComponentKind(name) \o "s", name>>

\* The files a module specifier may stand for below a directory.
ModuleFiles(dir, specifier) ==
  LET exts == {"ts", "tsx", "js", "jsx"}
  IN  {dir \o <<specifier[1], specifier[2] \o "." \o e>> : e \in exts}
        \cup {dir \o specifier \o <<"index." \o e>> : e \in exts}

\* C29: after a successful add, under every config.paths, every requested
\* component has its export line in the barrel, the line names the module
\* <kind>s/<name>, and that module, taken from the directory of the barrel
\* file, is the component file of the run, which is on disk.
C29_BarrelExportsResolve ==
  (pc = "done" /\ run.err = "none" /\ "paths" \in DOMAIN configFile) =>
    \A i \in 1..Len(run.requested) :
      LET name == run.requested[i]
          target == TargetFile(variant, configFile.paths, name, configFile.language)
          line == ValueExport(RegistryExportName(name),
                              "./" \o ExportSpecifier(name)[1] \o "/" \o ExportSpecifier(name)[2])
      IN  /\ line \in Range(barrel.lines)
          /\ line \in Range(run.exports)
          /\ files[target] # "absent"
          /\ target \in ModuleFiles(Dirname(BarrelFile(variant, configFile.paths)),
                                    ExportSpecifier(name))

\* C29 under the paths init writes (or the fallbacks of the manifest-based
\* add): there every export line resolves to the component file.
C29_DefaultPathsResolve ==
  ( /\ "paths" \in DOMAIN configFile
    /\ configFile.paths.outputDir = DefaultOutputDir
    /\ PrimitivesDir(configFile.paths) = DefaultOutputDir \o <<"primitives">>
    /\ BarrelFile(variant, configFile.paths) = DefaultOutputDir \o <<"index">> )
  => C29_BarrelExportsResolve

\* C30: the registry-based add accepts a requested name only when it is one
\* of the registry's own component keys; a run with any other name, a key
\* inherited from Object.prototype included, ends with the unknown-components
\* error that lists the name, and has written no file.
C30_RegistryMembership ==
  (variant = "registry" /\ pc \in {"done", "failed"}
     /\ configFile.exists /\ configFile.json /\ configFile.framework = "react") =>
    /\ run.err = "none" => \A i \in 1..Len(run.requested) : run.requested[i] \in RegistryKeys
    /\ \A i \in 1..Len(run.requested) :
         run.requested[i] \notin RegistryKeys =>
           /\ run.err = "unknown-components"
           /\ run.requested[i] \in Range(run.message.unknown)
           /\ WritesOf(run.ops) = <<>>
           /\ files = snap.files

\* The part of C30 the code keeps: a name that is no property of the
\* components object at all is reported before any file is written.
C30_PlainUnknownNames ==
  (variant = "registry" /\ pc \in {"done", "failed"}
     /\ configFile.exists /\ configFile.json /\ configFile.framework = "react") =>
    \A i \in 1..Len(run.requested) :
      ~RegistryHas(run.requested[i]) =>
        /\ run.err = "unknown-components"
        /\ run.requested[i] \in Range(run.message.unknown)
        /\ TreeUnchanged

(***************************************************************************)
(* initCommand, in its two variants: commands/init.ts ("init.ts") and the  *)
(* one of part_005.  A call is folded over a record of the files it may    *)
(* touch and its log: [configFile, entry, asked, ops, warned, err].        *)
(***************************************************************************)
InitVariants == {"init.ts", "part_005"}

\* The dependencies of package.json (dependencies and devDependencies).
DepSets == {{}, {"react"}, {"react", "vite"}, {"vue"}, {"svelte"}, {"react", "vue"}}

\* package.json: missing, present but not JSON, or present with its deps.
PkgStates == {"missing", "unparsable", "ok"}

\* The entry file of a project that has one (src/main.tsx or src/main.jsx).
ProjectEntry == <<LnImport, LnCode>>

\* detectFramework(cwd)
DetectFramework(v, pkg, deps) ==
  IF v = "init.ts"
    THEN IF pkg # "ok" THEN "unknown"
         ELSE IF "react" \in deps THEN "react"
         ELSE IF "vue" \in deps THEN "vue"
         ELSE IF "svelte" \in deps THEN "svelte"
         ELSE "unknown"
    ELSE IF pkg # "ok" THEN "react"
         ELSE IF "vue" \in deps THEN "vue"
         ELSE IF "svelte" \in deps THEN "svelte"
         ELSE "react"

\* The Next.js files of a project root: a next.config.* file, the directory
\* node_modules/next, and an app directory (app or src/app).
NextConfigs == {"next.config.js", "next.config.mjs", "next.config.ts"}
AppDirs == {"app", "src/app"}

\* A project root without Next.js files.
NoNext == [nextConfig |-> "none", nextModule |-> FALSE, appDir |-> "none"]

\* detectProjectType.  Next.js is recognised by its config file or by the
\* directory node_modules/next; package.json is read only after that.  The
\* part_005 variant returns "unknown" at once for another framework.
DetectProjectType(v, pkg, deps, framework, next) ==
  IF v = "part_005" /\ framework # "react" THEN "unknown"
  ELSE IF next.nextConfig \in NextConfigs \/ next.nextModule
    THEN IF next.appDir \in AppDirs THEN "next-app-router" ELSE "next-pages-router"
  ELSE IF pkg = "ok" /\ "vite" \in deps /\ "react" \in deps THEN "vite-react"
  ELSE IF pkg = "ok" /\ "react-scripts" \in deps THEN "cra"
  ELSE "unknown"

\* The lockfiles detectPackageManager looks for.
Lockfiles == {"pnpm-lock.yaml", "yarn.lock", "bun.lockb", "package-lock.json"}

\* A detectPackageManager that looks for yarn.lock first.
DetectPackageManagerYarnFirst(lockfiles) ==
  IF "yarn.lock" \in lockfiles THEN "yarn"
  ELSE IF "pnpm-lock.yaml" \in lockfiles THEN "pnpm"
  ELSE IF "bun.lockb" \in lockfiles THEN "bun"
  ELSE "npm"

\* detectPackageManager(cwd), the same in both variants.
DetectPackageManager(lockfiles) ==
  IF "pnpm-lock.yaml" \in lockfiles THEN "pnpm"
  ELSE IF "yarn.lock" \in lockfiles THEN "yarn"
  ELSE IF "bun.lockb" \in lockfiles THEN "bun"
  ELSE IF "package-lock.json" \in lockfiles THEN "npm"
  ELSE "npm"

\* detectCssSupport(cwd, projectType) of commands/init.ts.
DetectCssSupport(projectType, pkg, deps) ==
  IF projectType # "unknown" THEN TRUE ELSE pkg = "ok" /\ "vite" \in deps

\* detectTS(cwd) ? "ts" : "js"
DetectLanguage(tsconfig) == IF tsconfig THEN "ts" ELSE "js"

\* A writeConfig that ignores the overwrite flag.
WriteConfigAlways(cfg, fresh, overwrite) ==
  [configFile |-> fresh, wrote |-> TRUE, warned |-> FALSE]

\* A writeConfig that removes the config it may not replace.
WriteConfigRemoves(cfg, fresh, overwrite) ==
  IF cfg.exists /\ ~overwrite
    THEN [configFile |-> NoConfig, wrote |-> TRUE, warned |-> TRUE]
    ELSE [configFile |-> fresh, wrote |-> TRUE, warned |-> FALSE]

\* writeConfig(cwd, config, overwrite), the same in both variants.
WriteConfig(cfg, fresh, overwrite) ==
  IF cfg.exists /\ ~overwrite
    THEN [configFile |-> cfg, wrote |-> FALSE, warned |-> TRUE]
    ELSE [configFile |-> fresh, wrote |-> TRUE, warned |-> FALSE]

\* confirm(question, defaultValue) of utils/terminal.ts.
Confirm(answer, defaultValue) ==
  LET a == ToLowerCase(Trim(answer))
  IN  IF a = "" THEN defaultValue
      ELSE IF a \in {"y", "yes"} THEN TRUE
      ELSE IF a \in {"n", "no"} THEN FALSE
      ELSE defaultValue

\* ensureStylesImport of each variant; readOk and writeOk are the outcomes
\* of fs.readFile and fs.writeFile on the entry file.
EnsureStylesImportOf(v, lines, readOk, writeOk) ==
  IF v = "init.ts" THEN EnsureStylesImport(lines, readOk, writeOk)
  ELSE IF ~readOk
    THEN [lines |-> lines, returned |-> FALSE, wrote |-> FALSE, failed |-> "read"]
  ELSE IF \E i \in 1..Len(lines) : lines[i] = STYLES_IMPORT_DIST
    THEN [lines |-> lines, returned |-> FALSE, wrote |-> FALSE, failed |-> "none"]
  ELSE IF writeOk
    THEN [lines |-> PatchImportAtTop(lines, STYLES_IMPORT_DIST),
          returned |-> TRUE, wrote |-> TRUE, failed |-> "none"]
  ELSE [lines |-> lines, returned |-> FALSE, wrote |-> FALSE, failed |-> "write"]

InitStart(cfg, lines) ==
  [configFile |-> cfg, entry |-> lines, framework |-> "none", strategy |-> "none",
   asked |-> <<>>, ops |-> <<>>, warned |-> <<>>, reported |-> <<>>,
   status |-> 0, err |-> "none", errCode |-> 0]

\* The call of writeConfig.
ConfigStep(st, fresh, overwrite) ==
  LET w == WriteConfig(st.configFile, fresh, overwrite)
  IN  [st EXCEPT !.configFile = w.configFile,
                 !.ops = IF w.wrote THEN Append(@, "writeConfig") ELSE @,
                 !.warned = IF w.warned THEN Append(@, "config-exists") ELSE @]

\* The exit statuses of the install subprocess.
InstallStatuses == {0, 1, 2}

\* An installRuntimeDeps that does not look at the status of the subprocess.
InstallStepIgnoresStatus(st, status) ==
  [st EXCEPT !.ops = Append(@, "spawn"), !.status = status]

\* installRuntimeDeps: spawnSync, and the throw on a non-zero status of
\* `Dependency installation failed with ${pm}. Exit code: ${res.status}`.
InstallStep(st, status) ==
  [st EXCEPT !.ops = Append(@, "spawn"),
             !.status = status,
             !.err = IF status # 0 THEN "install-failed" ELSE @,
             !.errCode = IF status # 0 THEN status ELSE @]

\* The patch of the entry file, or the warning when none was detected.
\* initCommand reports "Added styles import" when ensureStylesImport
\* returned true and "Styles import already present" when it returned false.
PatchStep(st, v, stylesEntry, readOk, writeOk) ==
  IF ~stylesEntry THEN [st EXCEPT !.warned = Append(@, "no-entry")]
  ELSE LET r == EnsureStylesImportOf(v, st.entry, readOk, writeOk)
       IN  [st EXCEPT !.entry = r.lines,
                      !.ops = IF r.wrote THEN Append(@, "patch") ELSE @,
                      !.reported =
                         @ \o (IF r.failed = "none" THEN <<>>
                               ELSE <<"failed-to-" \o r.failed>>)
                           \o (IF r.returned THEN <<"added">>
                               ELSE <<"already-present">>)]

\* The end of initCommand: "Complete." and the summary.
CompleteStep(st) == [st EXCEPT !.reported = Append(@, "complete")]

\* initCommand of commands/init.ts.
InitTs(p, cfg, lines, o) ==
  LET st0 == InitStart(cfg, lines)
      framework == DetectFramework("init.ts", p.pkg, p.deps)
      projectType == DetectProjectType("init.ts", p.pkg, p.deps, framework, NoNext)
      language == DetectLanguage(p.tsconfig)
      supportsCssImports == DetectCssSupport(projectType, p.pkg, p.deps)
      stylesEntry == supportsCssImports /\ p.hasEntry
      fresh == [exists |-> TRUE, json |-> TRUE, framework |-> framework,
                language |-> language]
      st1 == [st0 EXCEPT !.framework = framework,
                         !.strategy = IF supportsCssImports THEN "runtime" ELSE "local"]
      st2 == ConfigStep(st1, fresh, o.overwriteConfig)
      ok == o.yes \/ Confirm(o.installAnswer, TRUE)
      st3 == IF ~o.install THEN [st2 EXCEPT !.warned = Append(@, "no-install")]
             ELSE LET asked == IF o.yes THEN st2
                               ELSE [st2 EXCEPT !.asked = Append(@, "install")]
                  IN  IF ok THEN InstallStep(asked, o.installStatus) ELSE asked
      st4 == IF ~o.patch THEN [st3 EXCEPT !.warned = Append(@, "no-patch")]
             ELSE PatchStep(st3, "init.ts", stylesEntry, o.readOk, o.writeOk)
  IN  IF p.pkg = "missing" THEN [st0 EXCEPT !.err = "no-package-json"]
      ELSE IF framework # "react"
        THEN [st1 EXCEPT !.err = "unsupported-framework"]
      ELSE IF ~supportsCssImports
        THEN CompleteStep([st2 EXCEPT !.ops = Append(@, "writeLocalStyles")])
      ELSE IF st3.err # "none" THEN st3
      ELSE CompleteStep(st4)

\* initCommand of part_005.
Init005(p, cfg, lines, o) ==
  LET st0 == InitStart(cfg, lines)
      framework == DetectFramework("part_005", p.pkg, p.deps)
      language == DetectLanguage(p.tsconfig)
      stylesEntry == p.hasEntry
      fresh == [exists |-> TRUE, json |-> TRUE, framework |-> framework,
                language |-> language]
      st1 == [st0 EXCEPT !.framework = framework,
                         !.strategy = IF stylesEntry THEN "runtime" ELSE "local"]
      st2 == ConfigStep(st1, fresh, o.overwriteConfig)
      st3 == IF stylesEntry THEN st2
             ELSE [st2 EXCEPT !.ops = Append(@, "writeLocalStyles")]
      askInstall == o.install /\ ~o.yes
      shouldInstall == o.install /\ (o.yes \/ PromptBoolean(o.tty, o.installAnswer, TRUE))
      askPatch == o.patch /\ ~o.yes
      shouldPatch == o.patch /\ (o.yes \/ PromptBoolean(o.tty, o.patchAnswer, TRUE))
      st4 == [st3 EXCEPT !.asked = @ \o (IF askInstall /\ o.tty THEN <<"install">> ELSE <<>>)
                                     \o (IF askPatch /\ o.tty THEN <<"patch">> ELSE <<>>)]
      st5 == IF shouldInstall THEN InstallStep(st4, o.installStatus)
             ELSE [st4 EXCEPT !.warned = Append(@, "no-install")]
      st6 == IF shouldPatch
               THEN PatchStep(st5, "part_005", stylesEntry, o.readOk, o.writeOk)
             ELSE [st5 EXCEPT !.warned = Append(@, "no-patch")]
  IN  IF p.pkg = "missing" THEN [st0 EXCEPT !.err = "no-package-json"]
      ELSE IF st5.err # "none" THEN st5
      ELSE CompleteStep(st6)

(***************************************************************************)
(* SpecCli: one command of the tool run on a project: init, add, or one of *)
(* the commands that are not implemented.                                  *)
(***************************************************************************)
InitAnswers == {"", "n"}

\* The config a project may hold before the command: none, or one written
\* for a JavaScript React project.
CliInit ==
  /\ project \in [init : InitVariants, pkg : PkgStates, deps : DepSets,
                  tsconfig : BOOLEAN, hasEntry : BOOLEAN]
  /\ project.pkg # "ok" => project.deps = {}
  /\ initRun = NoInitRun
  /\ DetectIdle
  /\ entry = IF project.hasEntry THEN ProjectEntry ELSE <<"">>
  /\ entryBefore = entry
  /\ entryItems = <<>>
  /\ patchLog = <<>>
  /\ variant \in Variants
  /\ configFile \in {NoConfig, ValidConfig("js")}
  /\ files = NoFiles
  /\ dirs = {}
  /\ barrel = NoBarrel
  /\ pc = "idle"
  /\ request = <<>>
  /\ opts = [overwrite |-> FALSE, yes |-> FALSE]
  /\ tty = FALSE
  /\ run = EmptyRun
  /\ proc = Running
  /\ snap = Snapshot

InitCommand ==
  /\ pc = "idle"
  /\ \E overwriteConfig \in BOOLEAN, yes \in BOOLEAN, install \in BOOLEAN,
        patch \in BOOLEAN, isTTY \in BOOLEAN, installStatus \in InstallStatuses,
        installAnswer \in InitAnswers, patchAnswer \in InitAnswers,
        readOk \in BOOLEAN, writeOk \in BOOLEAN :
       \E o \in {[overwriteConfig |-> overwriteConfig, yes |-> yes, install |-> install,
                  patch |-> patch, tty |-> isTTY, installStatus |-> installStatus,
                  installAnswer |-> installAnswer, patchAnswer |-> patchAnswer,
                  readOk |-> readOk, writeOk |-> writeOk]} :
         \E r \in {IF project.init = "init.ts"
                     THEN InitTs(project, configFile, entry, o)
                     ELSE Init005(project, configFile, entry, o)} :
           /\ installAnswer # "" => "install" \in Range(r.asked)
           /\ patchAnswer # "" => "patch" \in Range(r.asked)
           /\ installStatus # 0 => "spawn" \in Range(r.ops)
           /\ isTTY => r.asked # <<>>
           /\ ~readOk => "failed-to-read" \in Range(r.reported)
           /\ ~writeOk => "failed-to-write" \in Range(r.reported)
           /\ configFile' = r.configFile
           /\ entry' = r.entry
           /\ entryBefore' = entry
           /\ initRun' = [opts |-> [overwriteConfig |-> overwriteConfig, yes |-> yes,
                                    install |-> install, patch |-> patch],
                          framework |-> r.framework, strategy |-> r.strategy,
                          asked |-> r.asked, ops |-> r.ops, warned |-> r.warned,
                          reported |-> r.reported, status |-> r.status,
                          err |-> r.err, errCode |-> r.errCode]
           /\ tty' = isTTY
           /\ pc' = IF r.err = "none" THEN "init done" ELSE "init failed"
           /\ proc' = MainCatch(r.err)
  /\ snap' = Snapshot
  /\ UNCHANGED <<entryItems, patchLog, project, probe, detected, variant, files, dirs, barrel,
                 request, opts, run>>

\* add of one component in the project, without a terminal.
AddInProject ==
  /\ pc = "idle"
  /\ \E name \in RawNames, overwrite \in BOOLEAN :
       RunAdd(<<name>>, overwrite, FALSE, FALSE, "done")

\* list, doctor and eject print "Not implemented yet" and set the exit code.
NotImplemented ==
  /\ pc = "idle"
  /\ \E command \in {"list", "doctor", "eject"} :
       request' = <<command>> /\ proc' = Stub(command)
  /\ pc' = "not implemented"
  /\ snap' = Snapshot
  /\ UNCHANGED <<patchVars, initVars, variant, configFile, files, dirs, barrel,
                 opts, tty, run>>

CliNext == InitCommand \/ AddInProject \/ NotImplemented

SpecCli == CliInit /\ [][CliNext]_vars

(***************************************************************************)
(* Properties of the init command and of the config file.                  *)
(***************************************************************************)
InitRan == pc \in {"init done", "init failed"}

AddRan == pc \in {"done", "failed"}

\* C8 (as claimed): when the dependencies of package.json do not identify
\* React (vue, svelte, or no framework at all), initCommand fails with the
\* unsupported-framework error and has written no config, installed nothing
\* and changed no project file.
C8_UnsupportedFramework ==
  (InitRan /\ project.pkg = "ok" /\ "react" \notin project.deps) =>
    /\ pc = "init failed"
    /\ initRun.err = "unsupported-framework"
    /\ initRun.ops = <<>>
    /\ configFile = snap.configFile
    /\ entry = entryBefore

\* writeConfig was reached: init got past the package.json and framework checks.
ReachedWriteConfig ==
  InitRan /\ initRun.err \notin {"no-package-json", "unsupported-framework"}

\* The config init builds from what it detected.
DetectedConfig ==
  [exists |-> TRUE, json |-> TRUE, framework |-> initRun.framework,
   language |-> IF project.tsconfig THEN "ts" ELSE "js"]

\* ensureStylesImport was called: initCommand reports one of its two results.
PatchAttempted ==
  \E i \in 1..Len(initRun.reported) : initRun.reported[i] \in {"added", "already-present"}

\* ensureStylesImport caught a failure of readFile or writeFile.
EntryIoFailed ==
  \E i \in 1..Len(initRun.reported) :
    initRun.reported[i] \in {"failed-to-read", "failed-to-write"}

\* The steps after writeConfig have left their marks.
RemainingStepsTaken ==
  /\ initRun.strategy = "local" => "writeLocalStyles" \in Range(initRun.ops)
  /\ (/\ initRun.opts.install /\ initRun.opts.yes
      /\ (initRun.strategy = "runtime" \/ project.init = "part_005")) =>
       "spawn" \in Range(initRun.ops)
  /\ (/\ initRun.err = "none" /\ initRun.opts.patch /\ initRun.opts.yes
      /\ initRun.strategy = "runtime" /\ project.hasEntry) =>
       /\ PatchAttempted
       /\ ~EntryIoFailed =>
            "patch" \in Range(initRun.ops) /\ Len(entry) = Len(entryBefore) + 1

\* C9: when the config file exists and --overwrite-config is not given, init
\* leaves it as it is, warns, raises no error on its account and goes on with
\* its remaining steps; with --overwrite-config the file becomes the freshly
\* detected config.
C9_NonDestructiveConfigWrite ==
  (ReachedWriteConfig /\ snap.configFile.exists) =>
    IF ~initRun.opts.overwriteConfig
      THEN /\ configFile = snap.configFile
           /\ "writeConfig" \notin Range(initRun.ops)
           /\ "config-exists" \in Range(initRun.warned)
           /\ initRun.err \in {"none", "install-failed"}
           /\ initRun.err = "install-failed" => "spawn" \in Range(initRun.ops)
           /\ RemainingStepsTaken
      ELSE /\ configFile = DetectedConfig
           /\ "writeConfig" \in Range(initRun.ops)

\* An init in a TypeScript project that kept the JavaScript config it found,
\* installed and patched the entry file.
C9_Witness ==
  /\ pc = "init done" /\ ~initRun.opts.overwriteConfig
  /\ snap.configFile = ValidConfig("js") /\ project.tsconfig
  /\ configFile = ValidConfig("js")
  /\ initRun.ops = <<"spawn", "patch">>

C16_ExitStatus ==
  /\ pc \in {"init done", "done"} => proc.exitCode = 0
  /\ (InitRan /\ initRun.err # "none") => proc.exitCode # 0
  /\ (AddRan /\ run.err # "none") => proc.exitCode # 0
  /\ (pc = "not implemented" /\ request[1] \in {"list", "doctor"}) =>
       /\ proc.exitCode # 0
       /\ proc.printed = "Not implemented yet: " \o request[1]

\* An init whose install failed: the error reached main and the process
\* ends with exit code 1.
C16_Witness ==
  /\ pc = "init failed" /\ initRun.err = "install-failed"
  /\ proc.exitCode = 1

\* The position of an operation in the log of the init run (0: not there).
OpAt(op) ==
  IF op \in Range(initRun.ops)
    THEN CHOOSE i \in 1..Len(initRun.ops) : initRun.ops[i] = op
    ELSE 0

Before(a, b) == (OpAt(a) > 0 /\ OpAt(b) > 0) => OpAt(a) < OpAt(b)

\* C17: in init the config write comes before the install and the install
\* before the entry-file patch; when the install subprocess ends with a
\* non-zero status, init throws an error carrying that exit code, the patch
\* is never attempted and the config written in the run stays on disk.
C17_InstallFailureOrdering ==
  InitRan =>
    /\ Before("writeConfig", "spawn") /\ Before("spawn", "patch")
    /\ Before("writeConfig", "patch")
    /\ initRun.status # 0 =>
         /\ pc = "init failed" /\ initRun.err = "install-failed"
         /\ initRun.errCode = initRun.status
         /\ ~PatchAttempted /\ "patch" \notin Range(initRun.ops)
         /\ entry = entryBefore
         /\ "writeConfig" \in Range(initRun.ops) => configFile = DetectedConfig

\* An init that wrote a new config, ran the install, which ended with
\* status 2, and never reached the patch it was asked to make.
C17_Witness ==
  /\ pc = "init failed" /\ initRun.status = 2 /\ initRun.errCode = 2
  /\ initRun.ops = <<"writeConfig", "spawn">>
  /\ ~snap.configFile.exists /\ configFile.exists
  /\ initRun.opts.patch /\ project.hasEntry

\* C18 (as claimed): when the entry file cannot be read or written during
\* the patch, init throws an error and ends with a non-zero outcome; it does
\* not report the patch as done or the import as present, and does not
\* finish as a success.
C18_EntryIoFailure ==
  (InitRan /\ EntryIoFailed) =>
    /\ pc = "init failed" /\ initRun.err # "none"
    /\ proc.exitCode # 0
    /\ ~PatchAttempted
    /\ "complete" \notin Range(initRun.reported)

(***************************************************************************)
(* SpecDetect: the detectors of initCommand applied to a project root.     *)
(***************************************************************************)
\* The dependencies of package.json the project-type detector can tell apart.
ProbeDeps ==
  SUBSET {"next", "vite", "react", "react-scripts"} \cup {{"vue", "vite", "react"}}

DetectInit ==
  /\ probe \in [init : InitVariants, lockfiles : SUBSET Lockfiles,
                nextConfig : NextConfigs \cup {"none"}, nextModule : BOOLEAN,
                appDir : AppDirs \cup {"none"}, pkg : {"ok", "unparsable"},
                deps : ProbeDeps]
  /\ probe.pkg # "ok" => probe.deps = {}
  /\ detected = NoDetection
  /\ project = NoProject
  /\ initRun = NoInitRun
  /\ PatchIdle
  /\ variant = "registry"
  /\ configFile = NoConfig
  /\ files = NoFiles
  /\ dirs = {}
  /\ barrel = NoBarrel
  /\ pc = "idle"
  /\ request = <<>>
  /\ opts = [overwrite |-> FALSE, yes |-> FALSE]
  /\ tty = FALSE
  /\ run = EmptyRun
  /\ proc = Running
  /\ snap = Snapshot

\* const pm = ... ?? detectPackageManager(cwd)
DetectPackageManagerCall ==
  /\ detected.pm = "none"
  /\ detected' = [detected EXCEPT !.pm = DetectPackageManager(probe.lockfiles)]
  /\ UNCHANGED <<patchVars, addVars, project, initRun, probe>>

\* const projectType = detectProjectType(cwd) (with the detected framework
\* in the part_005 variant)
DetectProjectTypeCall ==
  /\ detected.projectType = "none"
  /\ detected' =
       [detected EXCEPT !.projectType =
          DetectProjectType(probe.init, probe.pkg, probe.deps,
                            DetectFramework(probe.init, probe.pkg, probe.deps),
                            [nextConfig |-> probe.nextConfig,
                             nextModule |-> probe.nextModule,
                             appDir |-> probe.appDir])]
  /\ UNCHANGED <<patchVars, addVars, project, initRun, probe>>

DetectNext == DetectPackageManagerCall \/ DetectProjectTypeCall

SpecDetect == DetectInit /\ [][DetectNext]_vars

\* The priority order of the package managers, and the lockfile of each.
PmPriority == <<"pnpm", "yarn", "bun", "npm">>

LockfileOf(pm) ==
  CASE pm = "pnpm" -> "pnpm-lock.yaml"
    [] pm = "yarn" -> "yarn.lock"
    [] pm = "bun" -> "bun.lockb"
    [] pm = "npm" -> "package-lock.json"

\* C14: for every combination of lockfiles in the project root,
\* detectPackageManager returns the first package manager, in the order pnpm,
\* yarn, bun, npm, whose lockfile is present, and npm when none is.
C14_PackageManagerPriority ==
  detected.pm # "none" =>
    IF probe.lockfiles = {} THEN detected.pm = "npm"
    ELSE \E k \in 1..Len(PmPriority) :
           /\ detected.pm = PmPriority[k]
           /\ LockfileOf(PmPriority[k]) \in probe.lockfiles
           /\ \A j \in 1..(k - 1) : LockfileOf(PmPriority[j]) \notin probe.lockfiles

\* detectPackageManager answered yarn in a project root that holds the
\* lockfiles of yarn, bun and npm.
C14_Witness ==
  /\ probe.lockfiles = {"yarn.lock", "bun.lockb", "package-lock.json"}
  /\ detected.pm = "yarn"

\* next is declared as a dependency in package.json.
NextDeclared == probe.pkg = "ok" /\ "next" \in probe.deps

\* The archetype the claim gives for the project root.
ClaimedProjectType ==
  IF probe.nextConfig \in NextConfigs \/ NextDeclared
    THEN IF probe.appDir \in AppDirs THEN "next-app-router" ELSE "next-pages-router"
  ELSE IF probe.pkg = "ok" /\ {"vite", "react"} \subseteq probe.deps THEN "vite-react"
  ELSE IF probe.pkg = "ok" /\ "react-scripts" \in probe.deps THEN "cra"
  ELSE "unknown"

\* C15 (as claimed): detectProjectType returns app-router when a next config
\* file or the next dependency is present and an app directory exists,
\* pages-router when next is present without an app directory, otherwise
\* vite-spa when vite and react are dependencies, otherwise cra when
\* react-scripts is a dependency, otherwise unknown.
C15_ArchetypeDetection ==
  detected.projectType # "none" => detected.projectType = ClaimedProjectType

(***************************************************************************)
(* SpecBarrel: updateBarrel applied to an arbitrary existing barrel file.  *)
(***************************************************************************)
BarrelLines ==
  { "", "export * from \"./theme\";",
    ValueExport("Button", "./primitives/button"),
    "  export { Button } from \"./primitives/button\";",
    TypeExport("ButtonProps", "./primitives/button") }

\* The requests made of known component names.
KnownRequests == SeqsUpTo(RegistryKeys, MaxReq) \ {<<>>}

BarrelInit ==
  /\ PatchIdle
  /\ InitIdle
  /\ variant \in Variants
  /\ configFile \in {ValidConfig(l) : l \in Languages}
  /\ files = NoFiles
  /\ dirs = {<<>>}
  /\ barrel \in {[exists |-> TRUE, lines |-> ls] :
                   ls \in SeqsUpTo(BarrelLines, MaxBarrelLines) \ {<<>>}}
  /\ pc = "idle"
  /\ request = <<>>
  /\ opts = [overwrite |-> FALSE, yes |-> FALSE]
  /\ tty = FALSE
  /\ run = EmptyRun
  /\ proc = Running
  /\ snap = Snapshot

UpdateBarrelCall ==
  /\ pc = "idle"
  /\ \E names \in KnownRequests :
       LET exports == IF variant = "registry"
                        THEN [i \in 1..Len(names) |-> RegistryExport(names[i])]
                        ELSE ManifestExportLines(Dedupe(names), configFile.language)
           r == IF variant = "registry"
                  THEN UpdateBarrelRegistry(barrel, exports)
                  ELSE UpdateBarrelManifest(barrel, Dedupe(names), configFile.language)
       IN  /\ request' = names
           /\ barrel' = r.barrel
           /\ run' = [run EXCEPT !.exports = exports,
                                 !.ops = IF r.wrote THEN <<Op("writeFile", BarrelPath)>>
                                                    ELSE <<>>]
  /\ snap' = Snapshot
  /\ pc' = "done"
  /\ UNCHANGED <<patchVars, initVars, variant, configFile, files, dirs, opts, tty, proc>>

BarrelNext == UpdateBarrelCall

SpecBarrel == BarrelInit /\ [][BarrelNext]_vars

\* The distinct non-empty trimmed lines of a barrel, in file order.
LineList(b) == Dedupe(SelectSeq(TrimmedLines(b.lines), LAMBDA l : l # ""))

\* C4 (as claimed): after updateBarrel on an existing barrel with lines L and
\* new export lines N, the lines are L when N is within L, and otherwise L
\* followed by the lines of N not in L in lexicographic order.  L is read
\* as the distinct non-empty trimmed lines, and the barrel is not the empty file.
C4_MergeUnion ==
  (pc = "done" /\ snap.barrel.exists /\ snap.barrel.lines # <<"">>) =>
    LET L == LineList(snap.barrel)
        N == Range(run.exports)
    IN  LineList(barrel) =
          IF N \subseteq Range(L) THEN L ELSE L \o Lexicographic(N \ Range(L))


\* The content of a file without its final newline, as lines.
WithoutFinalNewline(lines) ==
  IF lines[Len(lines)] = "" THEN SubSeq(lines, 1, Len(lines) - 1) ELSE lines

\* C20 (as claimed): when the barrel exists and at least one export line must
\* be added, the file written back is the complete prior content unchanged
\* (blank lines, indentation and repeated lines included, in their order)
\* followed by the new lines, each on its own line.
C20_BarrelContentPreserved ==
  (/\ pc = "done" /\ snap.barrel.exists /\ snap.barrel.lines # <<"">>
   /\ \E i \in 1..Len(run.exports) :
        run.exports[i] \notin Range(TrimmedLines(snap.barrel.lines))) =>
    LET prior == WithoutFinalNewline(snap.barrel.lines)
        after == WithoutFinalNewline(barrel.lines)
    IN  /\ run.ops # <<>>
        /\ barrel.lines[Len(barrel.lines)] = ""
        /\ Len(after) > Len(prior)
        /\ SubSeq(after, 1, Len(prior)) = prior
        /\ \A k \in (Len(prior) + 1)..Len(after) :
             /\ after[k] \in Range(run.exports)
             /\ after[k] \notin Range(TrimmedLines(snap.barrel.lines))

(***************************************************************************)
(* SpecPatch: ensureStylesImport applied to an arbitrary entry file.       *)
(***************************************************************************)
PatchInit ==
  /\ AddIdle
  /\ entryItems \in SeqsUpTo(Items, MaxItems)
  /\ entry = FileLines(entryItems)
  /\ entryBefore = entry
  /\ patchLog = <<>>

EnsureStylesImportCall ==
  /\ Len(patchLog) < MaxPatchCalls
  /\ \E readOk \in BOOLEAN, writeOk \in BOOLEAN :
       LET r == EnsureStylesImport(entry, readOk, writeOk)
       IN  /\ entry' = r.lines
           /\ entryBefore' = entry
           /\ patchLog' = Append(patchLog,
                [io |-> readOk /\ writeOk, returned |-> r.returned, wrote |-> r.wrote])
  /\ UNCHANGED <<entryItems, addVars, initVars>>

PatchNext == EnsureStylesImportCall

SpecPatch == PatchInit /\ [][PatchNext]_vars

(***************************************************************************)
(* Claims about the CSS-import patch (checked under SpecPatch).            *)
(***************************************************************************)
LastPatch == patchLog[Len(patchLog)]

\* The place the statement-level reading of an entry file gives for the new
\* import: the 0-based line index right after the last import statement of the
\* leading run of blank, comment and import statements, 0 when it holds none.
RECURSIVE LeadingImportEnd(_, _, _)
LeadingImportEnd(items, offset, lastEnd) ==
  IF items = <<>> THEN lastEnd
  ELSE LET it == Head(items)
           next == offset + Len(ItemLines(it))
       IN  IF it \in {"blank", "comment", "pathComment"}
             THEN LeadingImportEnd(Tail(items), next, lastEnd)
           ELSE IF it \in {"import", "multiImport", "styles"}
             THEN LeadingImportEnd(Tail(items), next, next)
           ELSE lastEnd

MentionsStylesheet(l) == l \in {STYLES_IMPORT, LnPathComment}

C6_PatchPosition ==
  (Len(patchLog) > 0 /\ LastPatch.wrote) =>
    entry = InsertAt(entryBefore, LeadingImportEnd(entryItems, 0, 0), STYLES_IMPORT)

====
